---- MODULE Spec2Model ----
(***************************************************************************)
(* ShellMeMaybe: a differential tester that feeds the same command to a    *)
(* candidate shell (minishell) and to bash, compares output, exit status   *)
(* and file side effects, and checks the candidate under valgrind.         *)
(*                                                                         *)
(* Text is a sequence of one-character strings; the escape character is    *)
(* the token ESC.  Error values and the valgrind diagnostic stream are     *)
(* sequences of words.  Durations are in milliseconds.                     *)
(***************************************************************************)
EXTENDS Integers, Sequences, FiniteSets, TLC

VARIABLES
    config,          \* *Config built by main
    prompt,          \* value returned by getPrompt
    probes,          \* the probes getPrompt ran: for each, whether it failed and its output
    managed,         \* the working directories and the invalid_permission fixture
    pc,              \* position of the single thread of control
    catName,         \* category.Name of the category being run
    catsRun,         \* number of categories handed to runCategoryTests
    testsRun,        \* number of test cases handed to runTest
    test,            \* the TestCase of the current / last runTest call
    result,          \* the TestResult under construction / last returned
    results,         \* runCategoryTests' local slice
    categoryResults, \* main's map category name -> []TestResult
    executed,        \* every runTest call so far: its TestCase, the TestResult returned, its steps
    exitCode,        \* status handed to os.Exit (meaningful once pc is an exit)
    procs,           \* operating-system processes spawned and still running
    dirs,            \* contents of OutfilesDir, MiniOutDir, BashOutDir
    elapsed,         \* time.Since(startTime) of the current runTest call
    trace,           \* steps taken by the current / last runTest call
    pureIn,          \* input text of the pure-function specifications
    pureArg,         \* second argument (the prompt) of the pure function
    pureOut,         \* result of applying the function once
    pureOut2,        \* result of applying it to its own result
    sends            \* sends made by goroutines whose select had left by its timeout branch

vars == <<config, prompt, probes, managed, pc, catName, catsRun, testsRun, test, result, results,
          categoryResults, executed, exitCode, procs, dirs, elapsed, trace,
          pureIn, pureArg, pureOut, pureOut2, sends>>

suiteVars == <<config, prompt, probes, managed, pc, catName, catsRun, testsRun, test, result,
               results, categoryResults, executed, exitCode, procs, dirs,
               elapsed, trace, sends>>

pureVars == <<pureIn, pureArg, pureOut, pureOut2>>

----------------------------------------------------------------------------
(* Bounds of the model *)

MaxCats == 2        \* SuiteSpec: categories handed to runCategoryTests in one run
MaxTests == 2       \* SuiteSpec: test cases executed in one run
MaxExecTests == 1   \* Spec: test cases executed in the one category
MaxChunks == 3      \* chunks concatenated into an input text
DetRuns == 3        \* DetSpec: runTest calls in one run

----------------------------------------------------------------------------
(* Program constants *)

Second == 1000                  \* time.Second, in milliseconds
DefaultTimeoutSecs == 5         \* flag "timeout"
DefaultValgrindTimeoutSecs == 10 \* flag "valgrind-timeout"
GraceMs == 500                  \* 500 * time.Millisecond
TimedOutCode == -1              \* "Use -1 to indicate timeout"

----------------------------------------------------------------------------
(* Text helpers: package strings and regexp, as the code uses them *)

ESC == "ESC"
NL == "\n"

Digits == {"0", "1", "2", "3", "4", "5", "6", "7", "8", "9"}
Lower == {"a", "b", "c", "d", "e", "f", "g", "h", "i", "j", "k", "l", "m",
          "n", "o", "p", "q", "r", "s", "t", "u", "v", "w", "x", "y", "z"}
Upper == {"A", "B", "C", "D", "E", "F", "G", "H", "I", "J", "K", "L", "M",
          "N", "O", "P", "Q", "R", "S", "T", "U", "V", "W", "X", "Y", "Z"}

\* [0-9;]
IsParamChar(c) == c \in Digits \cup {";"}

\* [A-Za-z]
IsFinalChar(c) == c \in Lower \cup Upper

\* unicode.IsSpace on the characters of the model's alphabet
IsSpace(c) == c \in {" ", "\t", NL, "\r"}

RECURSIVE ParamRun(_, _)
\* number of consecutive [0-9;] characters of s starting at position i
ParamRun(s, i) ==
    IF i <= Len(s) /\ IsParamChar(s[i]) THEN 1 + ParamRun(s, i + 1) ELSE 0

\* length of the match of ESC \[ [0-9;]{1,} [A-Za-z] at position i (0: none).
\* The parameter run is greedy; since no parameter character is a final
\* letter, backtracking to a shorter run never yields a match.
MatchLen(s, i) ==
    IF i + 1 <= Len(s) /\ s[i] = ESC /\ s[i + 1] = "["
    THEN LET n == ParamRun(s, i + 2)
         IN  IF n >= 1 /\ i + 2 + n <= Len(s) /\ IsFinalChar(s[i + 2 + n])
             THEN n + 3
             ELSE 0
    ELSE 0

RECURSIVE ReplaceAllFrom(_, _)
\* regexp.ReplaceAllString(s, ""): leftmost non-overlapping matches, one pass
ReplaceAllFrom(s, i) ==
    IF i > Len(s) THEN <<>>
    ELSE IF MatchLen(s, i) > 0 THEN ReplaceAllFrom(s, i + MatchLen(s, i))
    ELSE <<s[i]>> \o ReplaceAllFrom(s, i + 1)

removeColors(s) == ReplaceAllFrom(s, 1)

RECURSIVE TrimLeft(_)
TrimLeft(s) ==
    IF s # <<>> /\ IsSpace(Head(s)) THEN TrimLeft(Tail(s)) ELSE s

RECURSIVE TrimRight(_)
TrimRight(s) ==
    IF s # <<>> /\ IsSpace(s[Len(s)])
    THEN TrimRight(SubSeq(s, 1, Len(s) - 1))
    ELSE s

\* strings.TrimSpace
TrimSpace(s) == TrimRight(TrimLeft(s))

\* strings.HasPrefix
HasPrefix(s, p) == Len(p) <= Len(s) /\ SubSeq(s, 1, Len(p)) = p

RECURSIVE ContainsFrom(_, _, _)
ContainsFrom(s, sub, i) ==
    IF i + Len(sub) - 1 > Len(s) THEN FALSE
    ELSE IF SubSeq(s, i, i + Len(sub) - 1) = sub THEN TRUE
    ELSE ContainsFrom(s, sub, i + 1)

\* strings.Contains
Contains(s, sub) == ContainsFrom(s, sub, 1)

\* position of the last ":" of s, 0 when there is none
LastColon(s) ==
    IF \E i \in 1..Len(s) : s[i] = ":"
    THEN CHOOSE i \in 1..Len(s) : s[i] = ":" /\ \A j \in (i + 1)..Len(s) : s[j] # ":"
    ELSE 0

\* "parts := strings.Split(msg, ":"); if len(parts) > 1 { TrimSpace(parts[len(parts)-1]) }
\* else { TrimSpace(msg) }"; an empty file leaves the field empty
ExtractErrorMsg(msg) ==
    IF LastColon(msg) > 0
    THEN TrimSpace(SubSeq(msg, LastColon(msg) + 1, Len(msg)))
    ELSE TrimSpace(msg)

RECURSIVE SplitFrom(_, _, _)
\* strings.Split(s, "\n"): cur is the line being collected from position i
SplitFrom(s, i, cur) ==
    IF i > Len(s) THEN <<cur>>
    ELSE IF s[i] = NL THEN <<cur>> \o SplitFrom(s, i + 1, <<>>)
    ELSE SplitFrom(s, i + 1, Append(cur, s[i]))

SplitLines(s) == SplitFrom(s, 1, <<>>)

RECURSIVE JoinLines(_)
\* strings.Join(lines, "\n"); a nil slice joins to ""
JoinLines(lines) ==
    IF lines = <<>> THEN <<>>
    ELSE IF Len(lines) = 1 THEN lines[1]
    ELSE lines[1] \o <<NL>> \o JoinLines(Tail(lines))

DollarExit == <<"$", " ", "e", "x", "i", "t">>
ExitLine == <<"e", "x", "i", "t">>

\* mutant of KeepLine: a line that is exactly "exit" is kept
KeepLine_KeepsExit(line, p) ==
    /\ ~HasPrefix(TrimSpace(line), p)
    /\ ~Contains(TrimSpace(line), DollarExit)

\* the condition under which runTest keeps a line of the candidate's output
KeepLine(line, p) ==
    LET trimmedLine == TrimSpace(line)
    IN  /\ ~HasPrefix(trimmedLine, p)
        /\ ~Contains(trimmedLine, DollarExit)
        /\ trimmedLine # ExitLine

RECURSIVE FilterLines(_, _)
FilterLines(lines, p) ==
    IF lines = <<>> THEN <<>>
    ELSE IF KeepLine(Head(lines), p)
         THEN <<Head(lines)>> \o FilterLines(Tail(lines), p)
         ELSE FilterLines(Tail(lines), p)

\* runTest's processing of the candidate's stdout
NormalizeMini(raw, p) ==
    LET miniOutputStr == removeColors(raw)
        filtered == IF p # <<>>
                    THEN JoinLines(FilterLines(SplitLines(miniOutputStr), p))
                    ELSE miniOutputStr
    IN  TrimSpace(filtered)

\* runTest's processing of bash's stdout
NormalizeBash(raw) == TrimSpace(raw)

----------------------------------------------------------------------------
(* Error values: the words of the message; nil is the empty sequence *)

NoError == <<>>

ErrSkipped == <<"test", "skipped">>

\* error of the os package on a path
OsError(path) == <<"open", path, ":", "permission", "denied">>

\* error of os.ReadFile on the file name of directory dir: the *PathError prints
\* the path filepath.Join(dir, name)
OsFileError(dir, name) == <<"open", dir, "/", name, ":", "permission", "denied">>

ErrCleanOutfiles == <<"failed", "to", "clean", "outfiles", "dir", ":">>
ErrCleanMini == <<"failed", "to", "clean", "mini", "outfiles", "dir", ":">>
ErrCleanBash == <<"failed", "to", "clean", "bash", "outfiles", "dir", ":">>
ErrCopyMini == <<"failed", "to", "copy", "mini", "outfiles", ":">>
ErrCopyBash == <<"failed", "to", "copy", "bash", "outfiles", ":">>
ErrCompare == <<"failed", "to", "compare", "outfiles", ":",
                "diff", "command", "failed", ":", "exit", "status", "2">>
ErrMiniTimeout == <<"minishell", "command", "timed", "out", "after">>
ErrBashTimeout == <<"bash", "command", "timed", "out", "after">>
ErrValgrindPrefix == <<"valgrind", "check", "failed", ":">>
ErrValgrindTimeout == <<"valgrind", "timed", "out", "after">>
ErrValgrindStart == <<"exec", ":", "valgrind", ":", "executable", "file",
                      "not", "found", "in", "$PATH">>
ErrSignalKilled == <<"signal", ":", "killed">>
ErrExitStatus == <<"exit", "status", "1">>

\* the "%s" of a time.Duration, as one word
DurationWord(ms) == ToString(ms)

COMMAND_TIMED_OUT == <<"C", "O", "M", "M", "A", "N", "D", " ", "T", "I", "M",
                       "E", "D", " ", "O", "U", "T">>

----------------------------------------------------------------------------
(* Resource-safety classifier: runValgrindCheck's reading of valgrind's     *)
(* stderr, a sequence of words                                             *)

DefinitelyLost == <<"definitely", "lost">>
IndirectlyLost == <<"indirectly", "lost">>
PossiblyLost == <<"possibly", "lost">>
StillReachable == <<"still", "reachable">>
FdsLeftOpen == <<"file", "descriptors", "are", "left", "open">>

\* mutant of ClassifyLeaks: "still reachable" is not looked for
ClassifyLeaks_NoStillReachable(valgrindOutput) ==
    \/ Contains(valgrindOutput, DefinitelyLost)
    \/ Contains(valgrindOutput, IndirectlyLost)
    \/ Contains(valgrindOutput, PossiblyLost)

ClassifyLeaks(valgrindOutput) ==
    \/ Contains(valgrindOutput, DefinitelyLost)
    \/ Contains(valgrindOutput, IndirectlyLost)
    \/ Contains(valgrindOutput, PossiblyLost)
    \/ Contains(valgrindOutput, StillReachable)

ClassifyOpenFDs(valgrindOutput) == Contains(valgrindOutput, FdsLeftOpen)

\* "if err != nil && !strings.Contains(err.Error(), "exit status")"
WaitErrorIsFailure(err) ==
    err # NoError /\ ~Contains(err, <<"exit", "status">>)

\* mutant of ValgrindTimeoutOf: valgrind runs under the functional timeout
ValgrindTimeoutOf_Functional(cfg) == cfg.Timeout

\* "timeout := config.ValgrindTimeout; if timeout == 0 { timeout = config.Timeout * 2 }"
ValgrindTimeoutOf(cfg) ==
    IF cfg.ValgrindTimeout = 0 THEN cfg.Timeout * 2 ELSE cfg.ValgrindTimeout

----------------------------------------------------------------------------
(* TestResult *)

\* "result := TestResult{Command: test.Command}": every other field is zero
NewResult(t) ==
    [Command |-> t.Command, Passed |-> FALSE,
     MiniOutput |-> <<>>, BashOutput |-> <<>>,
     MiniExitCode |-> 0, BashExitCode |-> 0,
     MiniErrorMsg |-> <<>>, BashErrorMsg |-> <<>>,
     OutfilesDiff |-> <<>>, HasLeaks |-> FALSE, HasOpenFDs |-> FALSE,
     TimeTaken |-> 0, Error |-> NoError]

\* mutant of ComputePassed: the exit codes are not compared
ComputePassed_IgnoresExitCode(cfg, r) ==
    LET outputMatches == r.MiniOutput = r.BashOutput
        noOutfileDiff == r.OutfilesDiff = <<>>
        noMemoryIssues == ~r.HasLeaks /\ ~r.HasOpenFDs
    IN  IF cfg.SkipValgrind
        THEN outputMatches /\ noOutfileDiff
        ELSE outputMatches /\ noOutfileDiff /\ noMemoryIssues

\* "Determine if test passed"
ComputePassed(cfg, r) ==
    LET outputMatches == r.MiniOutput = r.BashOutput
        exitCodeMatches == r.MiniExitCode = r.BashExitCode
        noOutfileDiff == r.OutfilesDiff = <<>>
        noMemoryIssues == ~r.HasLeaks /\ ~r.HasOpenFDs
    IN  IF cfg.SkipValgrind
        THEN outputMatches /\ exitCodeMatches /\ noOutfileDiff
        ELSE outputMatches /\ exitCodeMatches /\ noOutfileDiff /\ noMemoryIssues

\* mutant of MiniTimeoutResult: the exit code is left at its zero value
MiniTimeoutResult_NoSentinel(cfg, r) ==
    [r EXCEPT !.Error = ErrMiniTimeout \o <<DurationWord(cfg.Timeout)>>,
              !.MiniOutput = COMMAND_TIMED_OUT]

\* the result runTest returns when the candidate's timer fires first
MiniTimeoutResult(cfg, r) ==
    [r EXCEPT !.Error = ErrMiniTimeout \o <<DurationWord(cfg.Timeout)>>,
              !.MiniOutput = COMMAND_TIMED_OUT,
              !.MiniExitCode = TimedOutCode]

\* the result runTest returns when bash's timer fires first
BashTimeoutResult(cfg, r) ==
    [r EXCEPT !.Error = ErrBashTimeout \o <<DurationWord(cfg.Timeout)>>,
              !.BashOutput = COMMAND_TIMED_OUT,
              !.BashExitCode = TimedOutCode]

\* mutant of FinishResult: the verdict is computed before the error of the
\* resource check is looked at
FinishResult_VerdictFirst(cfg, r, hasLeaks, hasOpenFDs, err, since) ==
    LET r1 == [r EXCEPT !.HasLeaks = hasLeaks, !.HasOpenFDs = hasOpenFDs]
        r2 == [r1 EXCEPT !.Passed = ComputePassed(cfg, r1), !.TimeTaken = since]
    IN  IF err # NoError /\ ~cfg.SkipValgrind
        THEN [r2 EXCEPT !.Error = ErrValgrindPrefix \o err]
        ELSE r2

\* the tail of runTest once runValgrindCheck has returned (hasLeaks, hasOpenFDs, err)
FinishResult(cfg, r, hasLeaks, hasOpenFDs, err, since) ==
    IF err # NoError /\ ~cfg.SkipValgrind
    THEN [r EXCEPT !.Error = ErrValgrindPrefix \o err]
    ELSE LET r1 == [r EXCEPT !.HasLeaks = hasLeaks, !.HasOpenFDs = hasOpenFDs]
         IN  [r1 EXCEPT !.Passed = ComputePassed(cfg, r1), !.TimeTaken = since]

----------------------------------------------------------------------------
(* Directories: a directory is the set of its entries, each a triple       *)
(* <<name, kind, content>> with kind "file" or "dir", at most one per name; *)
(* the content of a "dir" entry stands for everything below it             *)

EmptyDir == {}

NamesOf(d) == {f[1] : f \in d}

\* cleanDir: every entry of the directory removed
cleanDir(d) == EmptyDir

\* the entries of a directory that are no directories
FilesOf(d) == {f \in d : f[2] = "file"}

\* copyFiles(srcDir, dstDir): "if entry.IsDir() { continue }", every other entry
\* of src is read and written into dst under its name
copyFiles(src, dst) ==
    {f \in dst : f[1] \notin NamesOf(FilesOf(src))} \cup FilesOf(src)

\* the staging directory after a shell ran there: the files it wrote are added,
\* a file of the same name is overwritten
Written(d, fs) == {f \in d : f[1] \notin NamesOf(fs)} \cup fs

\* an entry that is a named pipe: os.ReadFile on it blocks in open(2) until some
\* process opens it for writing
HasFifo(d) == \E f \in d : f[2] = "fifo"

\* the line "diff --brief dir1 dir2" prints about one file name
DiffEntry(d1, d2, n) ==
    IF n \in NamesOf(d1) /\ n \notin NamesOf(d2)
    THEN <<"Only", "in", "mini_outfiles", ":", n>>
    ELSE IF n \notin NamesOf(d1) /\ n \in NamesOf(d2)
    THEN <<"Only", "in", "bash_outfiles", ":", n>>
    ELSE IF \E f \in d1, g \in d2 : f[1] = n /\ g[1] = n /\ f[2] # g[2]
    THEN <<"File", n, "is", "a", "directory", "while", "file", n, "is", "a",
           "regular", "file">>
    ELSE IF \E f \in FilesOf(d1), g \in FilesOf(d2) :
                f[1] = n /\ g[1] = n /\ f[3] # g[3]
    THEN <<"Files", n, "differ">>
    ELSE IF \E f \in d1 : f[1] = n /\ f[2] = "dir"
    THEN <<"Common", "subdirectories", ":", n>>
    ELSE <<>>

RECURSIVE DiffOver(_, _, _)
DiffOver(d1, d2, names) ==
    IF names = {} THEN <<>>
    ELSE LET n == CHOOSE x \in names : TRUE
         IN  DiffEntry(d1, d2, n) \o DiffOver(d1, d2, names \ {n})

\* compareDirs: the combined output of diff (exit status 0 or 1)
compareDirs(d1, d2) == DiffOver(d1, d2, NamesOf(d1) \cup NamesOf(d2))

----------------------------------------------------------------------------
(* printSummary *)

\* "result.Error != nil && strings.Contains(result.Error.Error(), "skipped")"
HasSkippedMarker(r) == r.Error # NoError /\ Contains(r.Error, <<"skipped">>)

IsPassed(r) == r.Passed
IsSkipped(r) == ~r.Passed /\ HasSkippedMarker(r)
\* mutant of IsFailed: every result that did not pass is counted as failed
IsFailed_CountsSkipped(r) == ~r.Passed

IsFailed(r) == ~r.Passed /\ ~HasSkippedMarker(r)

\* "allResults = append(allResults, results...)": the positions of all results
AllPositions(cr) ==
    UNION {{<<n, i>> : i \in 1..Len(cr[n])} : n \in DOMAIN cr}

\* the tally over "for _, result := range allResults"
SummaryPassed(cr) ==
    Cardinality({q \in AllPositions(cr) : IsPassed(cr[q[1]][q[2]])})

SummarySkipped(cr) ==
    Cardinality({q \in AllPositions(cr) : IsSkipped(cr[q[1]][q[2]])})

SummaryFailed(cr) ==
    Cardinality({q \in AllPositions(cr) : IsFailed(cr[q[1]][q[2]])})

\* "total := len(allResults)"
SummaryTotal(cr) == Cardinality(AllPositions(cr))

\* the category breakdown: "for _, r := range results { if r.Passed { catPassed++ }
\* else if <skipped marker> { catSkipped++ } else { catFailed++ } }"
CatPassed(rs) == Cardinality({i \in 1..Len(rs) : IsPassed(rs[i])})

CatSkipped(rs) == Cardinality({i \in 1..Len(rs) : IsSkipped(rs[i])})

CatFailed(rs) == Cardinality({i \in 1..Len(rs) : IsFailed(rs[i])})

\* "passRate := float64(passed) / float64(total) * 100", in whole percent
PassRate(cr) == (SummaryPassed(cr) * 100) \div SummaryTotal(cr)

\* runCategoryTests' closing count "%d/%d": passed, totalTests
\* with "totalTests := len(category.Tests)", one result per test case
CategoryCount(rs) == <<CatPassed(rs), Len(rs)>>

\* "if failed > 0 { ... return 1 } else { ... return 0 }"
printSummary(cr) == IF SummaryFailed(cr) > 0 THEN 1 ELSE 0

\* "categoryResults[category.Name] = results"
MapStore(cr, name, rs) ==
    [n \in (DOMAIN cr) \cup {name} |-> IF n = name THEN rs ELSE cr[n]]

----------------------------------------------------------------------------
(* getPrompt *)

DefaultPrompt == <<"$">>

\* mutant of getPrompt: no default when both probes give an empty line
getPrompt_NoDefault(err1, out1, err2, out2) ==
    IF err1 THEN [prompt |-> <<>>, failed |-> TRUE]
    ELSE LET clean1 == TrimSpace(removeColors(out1))
         IN  IF clean1 # <<>> THEN [prompt |-> clean1, failed |-> FALSE]
             ELSE IF err2 THEN [prompt |-> <<>>, failed |-> TRUE]
             ELSE [prompt |-> TrimSpace(removeColors(out2)), failed |-> FALSE]

\* err1/out1: the first probe ("\nexit\n"); err2/out2: the second ("\n")
getPrompt(err1, out1, err2, out2) ==
    IF err1 THEN [prompt |-> <<>>, failed |-> TRUE]
    ELSE LET clean1 == TrimSpace(removeColors(out1))
         IN  IF clean1 # <<>> THEN [prompt |-> clean1, failed |-> FALSE]
             ELSE IF err2 THEN [prompt |-> <<>>, failed |-> TRUE]
             ELSE LET clean2 == TrimSpace(removeColors(out2))
                  IN  IF clean2 = <<>>
                      THEN [prompt |-> DefaultPrompt, failed |-> FALSE]
                      ELSE [prompt |-> clean2, failed |-> FALSE]

\* the probes getPrompt runs: the second only when the first gave an empty line
ProbesRun(err1, out1, err2, out2) ==
    IF err1 THEN <<[err |-> TRUE, out |-> <<>>]>>
    ELSE IF TrimSpace(removeColors(out1)) # <<>>
    THEN <<[err |-> FALSE, out |-> out1]>>
    ELSE IF err2 THEN <<[err |-> FALSE, out |-> out1], [err |-> TRUE, out |-> <<>>]>>
    ELSE <<[err |-> FALSE, out |-> out1], [err |-> FALSE, out |-> out2]>>

----------------------------------------------------------------------------
(* setupTestEnvironment and cleanupTestEnvironment: dirsExist says whether  *)
(* OutfilesDir, MiniOutDir and BashOutDir exist, fixture is the mode of     *)
(* test_files/invalid_permission or "absent"                               *)

Unmanaged == [dirsExist |-> FALSE, fixture |-> "absent"]

\* setupTestEnvironment returning nil: the fixture written if missing and
\* chmod 0000, the three directories created
setupTestEnvironment(m) == [dirsExist |-> TRUE, fixture |-> "0000"]

\* setupTestEnvironment failing at step failing: "fixture" (nothing done yet)
\* or "dirs" (the fixture is already chmod 0000)
SetupFailedAt(m, failing) ==
    IF failing = "fixture" THEN m ELSE [m EXCEPT !.fixture = "0000"]

\* cleanupTestEnvironment: chmod 0666 on the fixture (a warning if it is
\* missing), os.RemoveAll on the three directories
cleanupTestEnvironment(m) ==
    [dirsExist |-> FALSE,
     fixture |-> IF m.fixture = "absent" THEN "absent" ELSE "0666"]

----------------------------------------------------------------------------
(* Inputs and environment behaviours *)

CatNames == {"builtins", "pipes"}

Commands == {"echo hola"}

\* the TestCase values the loader can hand over
TestCases == [Command : Commands, Skip : BOOLEAN]

NoTest == [Command |-> "", Skip |-> FALSE]

Hola == <<"h", "o", "l", "a">>
Bonjour == <<"b", "o", "n", "j", "o", "u", "r">>

\* what a candidate with prompt "$ " prints for "echo hola" and end of input
RawPromptedHola ==
    <<"$", " ", "e", "c", "h", "o", " ">> \o Hola \o <<NL>> \o Hola \o <<NL>>
        \o DollarExit \o <<NL>>

OutFileHola == {<<"out", "file", "hola">>}

\* first line printed by the candidate to the prompt probes
ProbeOutputs == {<<"$", " ", NL>>, <<NL>>}

\* behaviours of the candidate run: stdout, exit status of the pipeline,
\* files left in OutfilesDir
\* spawn says how far the pipeline got: "ok" (the shell ran and exited with
\* code), "not_found" (the wrapper could not execute the shell and exited with
\* 127), "not_started" (the wrapper itself could not be started: Output()
\* returns an error that is no *exec.ExitError)
RanOutcome(name, raw, code, files) ==
    [name |-> name, spawn |-> "ok", raw |-> raw, code |-> code, files |-> files,
     stderr |-> <<>>]

\* config.MinishellPath names no executable: bash reports it on the redirected
\* stderr and the pipeline exits with 127
MiniNotFound ==
    [name |-> "mini_not_found", spawn |-> "not_found", raw |-> <<>>, code |-> 127,
     files |-> EmptyDir, stderr |-> <<"s", "h", ":", " ", "n", "o", "n", "e", NL>>]

\* exec cannot start "bash" for the candidate's pipeline
MiniNotStarted ==
    [name |-> "mini_not_started", spawn |-> "not_started", raw |-> <<>>, code |-> 0,
     files |-> EmptyDir, stderr |-> <<>>]

\* exec cannot start "bash" for the reference pipeline
BashNotStarted ==
    [name |-> "bash_not_started", spawn |-> "not_started", raw |-> <<>>, code |-> 0,
     files |-> EmptyDir, stderr |-> <<>>]

MiniSpawnFailures == {MiniNotFound, MiniNotStarted}

\* the candidate prints what bash prints and exits like bash, but also writes a
\* message to its standard error, where bash writes none
MiniHolaWithMessage ==
    [name |-> "mini_hola_message", spawn |-> "ok", raw |-> RawPromptedHola, code |-> 0,
     files |-> EmptyDir, stderr |-> <<"m", "s", ":", " ", "o", "o", "p", "s", NL>>]

CompletedMiniOutcomes ==
    {RanOutcome("mini_hola", RawPromptedHola, 0, EmptyDir),
     RanOutcome("mini_bonjour", Bonjour \o <<NL>>, 0, EmptyDir),
     RanOutcome("mini_hola_status_2", RawPromptedHola, 2, EmptyDir),
     RanOutcome("mini_hola_outfile", RawPromptedHola, 0, OutFileHola),
     MiniHolaWithMessage}

MiniOutcomes == CompletedMiniOutcomes \cup MiniSpawnFailures

\* the wrapper of the reference pipeline is ended by a signal (the command is
\* "kill -9 $PPID"): Output() returns an *exec.ExitError whose ExitCode() is -1,
\* the value the os package gives for a process terminated by a signal
BashSignalled ==
    [name |-> "bash_signalled", spawn |-> "ok", raw |-> <<>>, code |-> -1,
     files |-> EmptyDir, stderr |-> <<>>]

\* behaviours of the reference run
BashOutcomes ==
    {RanOutcome("bash_hola", Hola \o <<NL>>, 0, EmptyDir), BashNotStarted, BashSignalled}

\* what valgrind writes when it gives up on its own command line, before any
\* candidate has run; it then exits with status 1
ValgrindUsageError ==
    <<"valgrind", ":", "Unknown", "option", ":", "--suppression=readline.supp">>

\* diagnostic streams of the instrumented run
ValgrindOutputs ==
    {ValgrindUsageError,
     <<"ERROR", "SUMMARY", ":", "0", "errors">>,
     <<"8", "bytes", "definitely", "lost", "in", "1", "blocks">>,
     <<"FILE", "DESCRIPTORS", ":", "4", "open", ";", "file", "descriptors",
       "are", "left", "open">>}

\* what cmd.Wait() returns for a valgrind that ended by itself
ValgrindWaitErrors == {NoError, ErrExitStatus, ErrSignalKilled}

\* time a run that ends by itself takes, below every timeout
RunMs == 1

Proc(id, role, kind) == [id |-> id, role |-> role, kind |-> kind]

\* "bash -c 'echo -e ... | <shell> 2>file'": the wrapper and the shell it launches
PipelineProcs(id, role) == {Proc(id, role, "wrapper"), Proc(id, role, "shell")}

\* cmd.Process.Kill() on the exec.Cmd of a pipeline: SIGKILL to the wrapper only
KillPipeline(ps, id, role) == ps \ {Proc(id, role, "wrapper")}

\* the process of exec.Command("valgrind", ..., config.MinishellPath)
ValgrindProc(id) == Proc(id, "valgrind", "tool")

----------------------------------------------------------------------------
(* Initial state *)

Configs ==
    [SkipValgrind : BOOLEAN,
     Timeout : {DefaultTimeoutSecs * Second},
     ValgrindTimeout : {DefaultValgrindTimeoutSecs * Second}]

\* the state when main starts, for a config built from the flags
InitWith(configs) ==
    /\ config \in configs
    /\ prompt = <<>>
    /\ probes = <<>>
    /\ managed = Unmanaged
    /\ pc = "main_setup"
    /\ sends = {}
    /\ catName = ""
    /\ catsRun = 0
    /\ testsRun = 0
    /\ test = NoTest
    /\ result = NewResult(NoTest)
    /\ results = <<>>
    /\ categoryResults = [n \in {} |-> <<>>]
    /\ executed = <<>>
    /\ exitCode = 0
    /\ procs = {}
    /\ dirs = [outfiles |-> EmptyDir, mini |-> EmptyDir, bash |-> EmptyDir]
    /\ elapsed = 0
    /\ trace = <<>>

SuiteInit == InitWith(Configs)

PureIdle ==
    /\ pureIn = <<>>
    /\ pureArg = <<>>
    /\ pureOut = <<>>
    /\ pureOut2 = <<>>

Init == SuiteInit /\ PureIdle

----------------------------------------------------------------------------
(* main *)

\* "if err := setupTestEnvironment(config); err != nil { ...; os.Exit(1) }"
SetupFail ==
    /\ pc = "main_setup"
    /\ \E failing \in {"fixture", "dirs"} : managed' = SetupFailedAt(managed, failing)
    /\ exitCode' = 1
    /\ pc' = "exit_setup"
    /\ UNCHANGED <<config, prompt, probes, catName, catsRun, testsRun, test, result,
                   results, categoryResults, executed, procs, dirs, elapsed, trace>>
    /\ UNCHANGED pureVars
    /\ UNCHANGED sends

\* setupTestEnvironment returns nil; "defer cleanupTestEnvironment(config)"
SetupTestEnvironment ==
    /\ pc = "main_setup"
    /\ managed' = setupTestEnvironment(managed)
    /\ pc' = "main_prompt"
    /\ UNCHANGED <<config, prompt, probes, catName, catsRun, testsRun, test, result,
                   results, categoryResults, executed, exitCode, procs, dirs, elapsed,
                   trace>>
    /\ UNCHANGED pureVars
    /\ UNCHANGED sends

\* "prompt, err := getPrompt(...)": on error main goes on with the empty prompt
GetPrompt(errs, outs) ==
    /\ pc = "main_prompt"
    /\ \E err1 \in errs, out1 \in outs, err2 \in errs, out2 \in outs :
          /\ prompt' = getPrompt(err1, out1, err2, out2).prompt
          /\ probes' = ProbesRun(err1, out1, err2, out2)
    /\ pc' = "main_loop"
    /\ UNCHANGED <<config, managed, catName, catsRun, testsRun, test, result, results,
                   categoryResults, executed, exitCode, procs, dirs, elapsed, trace>>
    /\ UNCHANGED pureVars
    /\ UNCHANGED sends

\* the candidate started by the first probe of getPrompt, or by the second after
\* an empty first answer, prints nothing and never exits:
\* "out, err := cmd.CombinedOutput()" waits for it without any timer
GetPromptBlocked ==
    /\ pc = "main_prompt"
    /\ \E first \in BOOLEAN :
          probes' = IF first THEN <<>> ELSE <<[err |-> FALSE, out |-> <<NL>>]>>
    /\ pc' = "prompt_blocked"
    /\ UNCHANGED <<config, prompt, managed, catName, catsRun, testsRun, test, result, results,
                   categoryResults, executed, exitCode, procs, dirs, elapsed, trace>>
    /\ UNCHANGED pureVars
    /\ UNCHANGED sends

\* "if len(categoriesToRun) == 0 { ...; os.Exit(1) }"
NoCategories ==
    /\ pc = "main_loop"
    /\ catsRun = 0
    /\ exitCode' = 1
    /\ pc' = "exit_nocats"
    /\ UNCHANGED <<config, prompt, probes, managed, catName, catsRun, testsRun, test, result, results,
                   categoryResults, executed, procs, dirs, elapsed, trace>>
    /\ UNCHANGED pureVars
    /\ UNCHANGED sends

\* "for _, category := range categoriesToRun": runCategoryTests is entered
StartCategory(names, limit) ==
    /\ pc = "main_loop"
    /\ catsRun < limit
    /\ \E name \in names : catName' = name
    /\ catsRun' = catsRun + 1
    /\ results' = <<>>
    /\ pc' = "cat_loop"
    /\ UNCHANGED <<config, prompt, probes, managed, testsRun, test, result, categoryResults, executed,
                   exitCode, procs, dirs, elapsed, trace>>
    /\ UNCHANGED pureVars
    /\ UNCHANGED sends

\* runCategoryTests returns (results, nil); "categoryResults[category.Name] = results"
EndCategory ==
    /\ pc = "cat_loop"
    /\ categoryResults' = MapStore(categoryResults, catName, results)
    /\ pc' = "main_loop"
    /\ UNCHANGED <<config, prompt, probes, managed, catName, catsRun, testsRun, test, result, results,
                   executed, exitCode, procs, dirs, elapsed, trace>>
    /\ UNCHANGED pureVars
    /\ UNCHANGED sends

\* "exitCode := printSummary(config, categoryResults); os.Exit(exitCode)"
Summary ==
    /\ pc = "main_loop"
    /\ catsRun > 0
    /\ exitCode' = printSummary(categoryResults)
    /\ pc' = "exit"
    /\ UNCHANGED <<config, prompt, probes, managed, catName, catsRun, testsRun, test, result, results,
                   categoryResults, executed, procs, dirs, elapsed, trace>>
    /\ UNCHANGED pureVars
    /\ UNCHANGED sends

----------------------------------------------------------------------------
(* runCategoryTests and runTest.  runTest is entered from the loop of      *)
(* runCategoryTests; every return of runTest is followed by                *)
(* "results = append(results, result)".                                    *)

\* runTest(config, prompt, t) returns r to runCategoryTests, which appends it
Return(t, r) ==
    /\ result' = r
    /\ results' = Append(results, r)
    /\ executed' = Append(executed, [test |-> t, result |-> r, trace |-> trace'])
    /\ pc' = "cat_loop"

\* "for i, test := range category.Tests { result := runTest(config, prompt, test)"
Enter(t, limit) ==
    /\ pc = "cat_loop"
    /\ testsRun < limit
    /\ test' = t
    /\ testsRun' = testsRun + 1

\* mutant of RunTestSkip: the directories are cleaned before Skip is tested
RunTestSkip_AfterClean(cases, limit) ==
    \E t \in cases :
        /\ Enter(t, limit)
        /\ t.Skip
        /\ dirs' = [outfiles |-> cleanDir(dirs.outfiles), mini |-> cleanDir(dirs.mini),
                    bash |-> cleanDir(dirs.bash)]
        /\ elapsed' = 0
        /\ trace' = <<"clean">>
        /\ Return(t, [NewResult(t) EXCEPT !.Error = ErrSkipped])
        /\ UNCHANGED <<config, prompt, probes, managed, catName, catsRun, categoryResults, exitCode, procs>>
        /\ UNCHANGED pureVars
        /\ UNCHANGED sends

\* "if test.Skip { result.Error = fmt.Errorf("test skipped"); return result }"
RunTestSkip(cases, limit) ==
    \E t \in cases :
        /\ Enter(t, limit)
        /\ t.Skip
        /\ elapsed' = 0
        /\ trace' = <<>>
        /\ Return(t, [NewResult(t) EXCEPT !.Error = ErrSkipped])
        /\ UNCHANGED <<config, prompt, probes, managed, catName, catsRun, categoryResults, exitCode,
                       procs, dirs>>
        /\ UNCHANGED pureVars
        /\ UNCHANGED sends

\* one of the three cleanDir calls fails: the directories before it are empty
RunTestCleanFail(cases, failures, limit) ==
    \E t \in cases, failing \in failures :
        /\ Enter(t, limit)
        /\ ~t.Skip
        /\ dirs' = [outfiles |-> IF failing = "outfiles" THEN dirs.outfiles
                                 ELSE cleanDir(dirs.outfiles),
                    mini |-> IF failing = "bash" THEN cleanDir(dirs.mini) ELSE dirs.mini,
                    bash |-> dirs.bash]
        /\ elapsed' = 0
        /\ trace' = <<"clean_failed">>
        /\ Return(t, [NewResult(t) EXCEPT !.Error =
                     (CASE failing = "outfiles" -> ErrCleanOutfiles
                        [] failing = "mini" -> ErrCleanMini
                        [] failing = "bash" -> ErrCleanBash) \o OsError(failing)])
        /\ UNCHANGED <<config, prompt, probes, managed, catName, catsRun, categoryResults, exitCode, procs>>
        /\ UNCHANGED pureVars
        /\ UNCHANGED sends

\* mutant of RunTestStart: MiniOutDir keeps the snapshot of the previous test case
RunTestStart_KeepsSnapshot(cases, limit) ==
    \E t \in cases :
        /\ Enter(t, limit)
        /\ ~t.Skip
        /\ dirs' = [outfiles |-> cleanDir(dirs.outfiles), mini |-> dirs.mini,
                    bash |-> cleanDir(dirs.bash)]
        /\ result' = NewResult(t)
        /\ procs' = procs \cup PipelineProcs(testsRun + 1, "mini")
        /\ elapsed' = 0
        /\ trace' = <<"clean", "spawn_mini">>
        /\ pc' = "mini_wait"
        /\ UNCHANGED <<config, prompt, probes, managed, catName, catsRun, results, categoryResults,
                       executed, exitCode>>
        /\ UNCHANGED pureVars
        /\ UNCHANGED sends

\* the three directories are cleaned and the candidate's pipeline is started
RunTestStart(cases, limit) ==
    \E t \in cases :
        /\ Enter(t, limit)
        /\ ~t.Skip
        /\ dirs' = [outfiles |-> cleanDir(dirs.outfiles), mini |-> cleanDir(dirs.mini),
                    bash |-> cleanDir(dirs.bash)]
        /\ result' = NewResult(t)
        /\ procs' = procs \cup PipelineProcs(testsRun + 1, "mini")
        /\ elapsed' = 0
        /\ trace' = <<"clean", "spawn_mini">>
        /\ pc' = "mini_wait"
        /\ UNCHANGED <<config, prompt, probes, managed, catName, catsRun, results, categoryResults,
                       executed, exitCode>>
        /\ UNCHANGED pureVars
        /\ UNCHANGED sends

\* "if miniErr != nil { if exitErr, ok := miniErr.(*exec.ExitError); ok {
\* result.MiniExitCode = exitErr.ExitCode() } } else { result.MiniExitCode = 0 }"
ExitCodeOf(o, before) == IF o.spawn = "not_started" THEN before ELSE o.code

\* mutant of MiniRecorded: a candidate that ended is recorded like a timeout
MiniRecorded_AsTimeout(o) == MiniTimeoutResult(config, result)

\* "case miniErr = <-miniDone": exit status and normalized output recorded
MiniRecorded(o) ==
    [result EXCEPT !.MiniExitCode = ExitCodeOf(o, result.MiniExitCode),
                   !.MiniOutput = NormalizeMini(o.raw, prompt)]

\* "miniErrorBytes, err := os.ReadFile("/tmp/mini_stderr.txt") ...
\* result.MiniErrorMsg = ..."
MiniErrRecorded(o) ==
    [MiniRecorded(o) EXCEPT !.MiniErrorMsg = ExtractErrorMsg(o.stderr)]

\* the candidate ended; copyFiles(OutfilesDir, MiniOutDir) fails
MiniDoneCopyFail(outcomes) ==
    \E o \in outcomes :
        /\ pc = "mini_wait"
        /\ procs' = procs \ PipelineProcs(testsRun, "mini")
        /\ ~HasFifo(Written(dirs.outfiles, o.files))
        /\ dirs' = [dirs EXCEPT !.outfiles = Written(dirs.outfiles, o.files)]
        /\ elapsed' = elapsed + RunMs
        /\ trace' = trace \o <<o.name>> \o <<"copy_mini_failed">>
        /\ Return(test, [MiniRecorded(o) EXCEPT !.Error = ErrCopyMini \o OsError("outfiles")])
        /\ UNCHANGED <<config, prompt, probes, managed, catName, catsRun, testsRun, test, categoryResults,
                       exitCode>>
        /\ UNCHANGED pureVars
        /\ UNCHANGED sends

\* the candidate ended; copyFiles cannot read one of the files the candidate
\* left in ./outfiles (the files before it in the listing are already copied)
MiniDoneReadFail(outcomes) ==
    \E o \in outcomes :
        \E f \in FilesOf(Written(dirs.outfiles, o.files)) :
            \E copied \in SUBSET (FilesOf(Written(dirs.outfiles, o.files)) \ {f}) :
                /\ pc = "mini_wait"
                /\ ~HasFifo(Written(dirs.outfiles, o.files))
                /\ procs' = procs \ PipelineProcs(testsRun, "mini")
                /\ dirs' = [dirs EXCEPT !.outfiles = Written(dirs.outfiles, o.files),
                                        !.mini = copyFiles(copied, dirs.mini)]
                /\ elapsed' = elapsed + RunMs
                /\ trace' = trace \o <<o.name>> \o <<"copy_mini_failed">>
                /\ Return(test, [MiniRecorded(o) EXCEPT
                                    !.Error = ErrCopyMini \o OsFileError("outfiles", f[1])])
                /\ UNCHANGED <<config, prompt, probes, managed, catName, catsRun, testsRun, test,
                               categoryResults, exitCode>>
                /\ UNCHANGED pureVars
                /\ UNCHANGED sends

\* the candidate ended; the second cleanDir(OutfilesDir) fails
MiniDoneCleanFail(outcomes) ==
    \E o \in outcomes :
        /\ pc = "mini_wait"
        /\ procs' = procs \ PipelineProcs(testsRun, "mini")
        /\ ~HasFifo(Written(dirs.outfiles, o.files))
        /\ dirs' = [dirs EXCEPT !.outfiles = Written(dirs.outfiles, o.files),
                                !.mini = copyFiles(Written(dirs.outfiles, o.files), dirs.mini)]
        /\ elapsed' = elapsed + RunMs
        /\ trace' = trace \o <<o.name>> \o <<"copy_mini", "clean_outfiles_failed">>
        /\ Return(test, [MiniErrRecorded(o) EXCEPT
                            !.Error = ErrCleanOutfiles \o OsError("outfiles")])
        /\ UNCHANGED <<config, prompt, probes, managed, catName, catsRun, testsRun, test, categoryResults,
                       exitCode>>
        /\ UNCHANGED pureVars
        /\ UNCHANGED sends

\* the candidate ended; snapshot taken, staging cleaned, bash's pipeline started
MiniDone(outcomes) ==
    \E o \in outcomes :
        /\ pc = "mini_wait"
        /\ procs' = (procs \ PipelineProcs(testsRun, "mini"))
                        \cup PipelineProcs(testsRun, "bash")
        /\ ~HasFifo(Written(dirs.outfiles, o.files))
        /\ dirs' = [dirs EXCEPT !.outfiles = cleanDir(Written(dirs.outfiles, o.files)),
                                !.mini = copyFiles(Written(dirs.outfiles, o.files), dirs.mini)]
        /\ elapsed' = elapsed + RunMs
        /\ trace' = trace \o <<o.name>> \o <<"copy_mini", "clean_outfiles", "spawn_bash">>
        /\ result' = MiniErrRecorded(o)
        /\ pc' = "bash_wait"
        /\ UNCHANGED <<config, prompt, probes, managed, catName, catsRun, testsRun, test, results,
                       categoryResults, executed, exitCode>>
        /\ UNCHANGED pureVars
        /\ UNCHANGED sends

\* the candidate ended and left a named pipe in ./outfiles: copyFiles calls
\* os.ReadFile on it and waits for a writer that never comes (the named pipe is
\* the first entry that is no directory, so nothing was copied before it)
MiniDoneCopyBlocked(outcomes) ==
    \E o \in outcomes :
        /\ pc = "mini_wait"
        /\ HasFifo(Written(dirs.outfiles, o.files))
        /\ FilesOf(Written(dirs.outfiles, o.files)) = EmptyDir
        /\ procs' = procs \ PipelineProcs(testsRun, "mini")
        /\ dirs' = [dirs EXCEPT !.outfiles = Written(dirs.outfiles, o.files)]
        /\ elapsed' = elapsed + RunMs
        /\ trace' = trace \o <<o.name>> \o <<"copy_mini_blocked">>
        /\ result' = MiniRecorded(o)
        /\ pc' = "copy_blocked"
        /\ UNCHANGED <<config, prompt, probes, managed, catName, catsRun, testsRun, test, results,
                       categoryResults, executed, exitCode>>
        /\ UNCHANGED pureVars
        /\ UNCHANGED sends

\* "case <-time.After(config.Timeout)": "if miniCmd.Process != nil { Kill() }".
\* miniCmd.Process is written by the goroutine and read here without
\* synchronisation: the read may or may not see the started process.
MiniTimeout(seens) ==
    \E seen \in seens :
        /\ pc = "mini_wait"
        /\ procs' = IF seen THEN KillPipeline(procs, testsRun, "mini") ELSE procs
        /\ elapsed' = elapsed + config.Timeout
        /\ trace' = trace \o <<"mini_timeout">> \o (IF seen THEN <<"kill_mini">> ELSE <<>>)
        /\ Return(test, MiniTimeoutResult(config, result))
        /\ UNCHANGED <<config, prompt, probes, managed, catName, catsRun, testsRun, test, categoryResults,
                       exitCode, dirs>>
        /\ UNCHANGED pureVars
        /\ UNCHANGED sends

\* mutant of BashRecorded: the reference output is cut to its first characters
BashRecorded_Truncated(o) ==
    [result EXCEPT !.BashExitCode = ExitCodeOf(o, result.BashExitCode),
                   !.BashOutput = IF Len(NormalizeBash(o.raw)) > 3
                                  THEN SubSeq(NormalizeBash(o.raw), 1, 3)
                                  ELSE NormalizeBash(o.raw)]

\* "case bashErr = <-bashDone": exit status and trimmed output recorded
BashRecorded(o) ==
    [result EXCEPT !.BashExitCode = ExitCodeOf(o, result.BashExitCode),
                   !.BashOutput = NormalizeBash(o.raw)]

\* "bashErrorBytes, err := os.ReadFile("/tmp/bash_stderr.txt") ...
\* result.BashErrorMsg = ..."
BashErrRecorded(o) ==
    [BashRecorded(o) EXCEPT !.BashErrorMsg = ExtractErrorMsg(o.stderr)]

\* bash ended; copyFiles(OutfilesDir, BashOutDir) fails
BashDoneCopyFail(outcomes) ==
    \E o \in outcomes :
        /\ pc = "bash_wait"
        /\ procs' = procs \ PipelineProcs(testsRun, "bash")
        /\ ~HasFifo(Written(dirs.outfiles, o.files))
        /\ dirs' = [dirs EXCEPT !.outfiles = Written(dirs.outfiles, o.files)]
        /\ elapsed' = elapsed + RunMs
        /\ trace' = trace \o <<o.name>> \o <<"copy_bash_failed">>
        /\ Return(test, [BashRecorded(o) EXCEPT !.Error = ErrCopyBash \o OsError("outfiles")])
        /\ UNCHANGED <<config, prompt, probes, managed, catName, catsRun, testsRun, test, categoryResults,
                       exitCode>>
        /\ UNCHANGED pureVars
        /\ UNCHANGED sends

\* bash ended; diff exits with a status other than 0 and 1
BashDoneCompareFail(outcomes) ==
    \E o \in outcomes :
        /\ pc = "bash_wait"
        /\ procs' = procs \ PipelineProcs(testsRun, "bash")
        /\ ~HasFifo(Written(dirs.outfiles, o.files))
        /\ dirs' = [dirs EXCEPT !.outfiles = Written(dirs.outfiles, o.files),
                                !.bash = copyFiles(Written(dirs.outfiles, o.files), dirs.bash)]
        /\ elapsed' = elapsed + RunMs
        /\ trace' = trace \o <<o.name>> \o <<"copy_bash", "compare_failed">>
        /\ Return(test, [BashErrRecorded(o) EXCEPT !.Error = ErrCompare])
        /\ UNCHANGED <<config, prompt, probes, managed, catName, catsRun, testsRun, test, categoryResults,
                       exitCode>>
        /\ UNCHANGED pureVars
        /\ UNCHANGED sends

\* bash ended; diff cannot be started: CombinedOutput returns an error that is
\* no *exec.ExitError and "err.(*exec.ExitError)" panics; main's deferred
\* cleanupTestEnvironment runs and the process ends with the status of an
\* unrecovered panic
BashDoneComparePanic(outcomes) ==
    \E o \in outcomes :
        /\ pc = "bash_wait"
        /\ procs' = procs \ PipelineProcs(testsRun, "bash")
        /\ dirs' = [outfiles |-> EmptyDir, mini |-> EmptyDir, bash |-> EmptyDir]
        /\ elapsed' = elapsed + RunMs
        /\ trace' = trace \o <<o.name>> \o <<"copy_bash", "compare_panicked">>
        /\ result' = BashErrRecorded(o)
        /\ exitCode' = 2
        /\ managed' = cleanupTestEnvironment(managed)
        /\ pc' = "panic"
        /\ UNCHANGED <<config, prompt, probes, catName, catsRun, testsRun, test, results,
                       categoryResults, executed>>
        /\ UNCHANGED pureVars
        /\ UNCHANGED sends

\* bash's result with the snapshot compared: "result.OutfilesDiff = outfilesDiff"
BashCompared(o) ==
    [BashErrRecorded(o) EXCEPT !.OutfilesDiff =
        compareDirs(dirs.mini, copyFiles(Written(dirs.outfiles, o.files), dirs.bash))]

\* mutant of ValgrindSkipped: the check runs whatever the configuration
ValgrindSkipped_Never(cfg) == FALSE

\* "if config.SkipValgrind { return false, false, nil }"
ValgrindSkipped(cfg) == cfg.SkipValgrind

\* bash ended; runValgrindCheck returns at once because the check is disabled
BashDoneNoValgrind(outcomes) ==
    \E o \in outcomes :
        /\ pc = "bash_wait"
        /\ ValgrindSkipped(config)
        /\ procs' = procs \ PipelineProcs(testsRun, "bash")
        /\ ~HasFifo(Written(dirs.outfiles, o.files))
        /\ dirs' = [dirs EXCEPT !.outfiles = Written(dirs.outfiles, o.files),
                                !.bash = copyFiles(Written(dirs.outfiles, o.files), dirs.bash)]
        /\ elapsed' = elapsed + RunMs
        /\ trace' = trace \o <<o.name>> \o <<"copy_bash", "compare", "verdict">>
        /\ Return(test, FinishResult(config, BashCompared(o), FALSE, FALSE, NoError,
                               elapsed + RunMs))
        /\ UNCHANGED <<config, prompt, probes, managed, catName, catsRun, testsRun, test, categoryResults,
                       exitCode>>
        /\ UNCHANGED pureVars
        /\ UNCHANGED sends

\* bash ended; "if err := cmd.Start(); err != nil { return false, false, err }"
BashDoneValgrindStartFail(outcomes) ==
    \E o \in outcomes :
        /\ pc = "bash_wait"
        /\ ~ValgrindSkipped(config)
        /\ procs' = procs \ PipelineProcs(testsRun, "bash")
        /\ ~HasFifo(Written(dirs.outfiles, o.files))
        /\ dirs' = [dirs EXCEPT !.outfiles = Written(dirs.outfiles, o.files),
                                !.bash = copyFiles(Written(dirs.outfiles, o.files), dirs.bash)]
        /\ elapsed' = elapsed + RunMs
        /\ trace' = trace \o <<o.name>> \o <<"copy_bash", "compare", "spawn_valgrind_failed">>
        /\ Return(test, FinishResult(config, BashCompared(o), FALSE, FALSE, ErrValgrindStart,
                               elapsed + RunMs))
        /\ UNCHANGED <<config, prompt, probes, managed, catName, catsRun, testsRun, test, categoryResults,
                       exitCode>>
        /\ UNCHANGED pureVars
        /\ UNCHANGED sends

\* bash ended; valgrind is started on the candidate and fed the command
BashDone(outcomes) ==
    \E o \in outcomes :
        /\ pc = "bash_wait"
        /\ ~ValgrindSkipped(config)
        /\ procs' = (procs \ PipelineProcs(testsRun, "bash")) \cup {ValgrindProc(testsRun)}
        /\ ~HasFifo(Written(dirs.outfiles, o.files))
        /\ dirs' = [dirs EXCEPT !.outfiles = Written(dirs.outfiles, o.files),
                                !.bash = copyFiles(Written(dirs.outfiles, o.files), dirs.bash)]
        /\ elapsed' = elapsed + RunMs
        /\ trace' = trace \o <<o.name>> \o <<"copy_bash", "compare", "spawn_valgrind">>
        /\ result' = BashCompared(o)
        /\ pc' = "valgrind_wait"
        /\ UNCHANGED <<config, prompt, probes, managed, catName, catsRun, testsRun, test, results,
                       categoryResults, executed, exitCode>>
        /\ UNCHANGED pureVars
        /\ UNCHANGED sends

\* "case <-time.After(config.Timeout)": "if bashCmd.Process != nil { Kill() }"
BashTimeout(seens) ==
    \E seen \in seens :
        /\ pc = "bash_wait"
        /\ procs' = IF seen THEN KillPipeline(procs, testsRun, "bash") ELSE procs
        /\ elapsed' = elapsed + config.Timeout
        /\ trace' = trace \o <<"bash_timeout">> \o (IF seen THEN <<"kill_bash">> ELSE <<>>)
        /\ Return(test, BashTimeoutResult(config, result))
        /\ UNCHANGED <<config, prompt, probes, managed, catName, catsRun, testsRun, test, categoryResults,
                       exitCode, dirs>>
        /\ UNCHANGED pureVars
        /\ UNCHANGED sends

\* what runValgrindCheck returns once cmd.Wait() has returned werr with the
\* diagnostic stream out on stderr
ValgrindVerdict(werr, out) ==
    IF WaitErrorIsFailure(werr)
    THEN [hasLeaks |-> FALSE, hasOpenFDs |-> FALSE, err |-> werr]
    ELSE [hasLeaks |-> ClassifyLeaks(out), hasOpenFDs |-> ClassifyOpenFDs(out),
          err |-> NoError]

\* "case err := <-done": valgrind ended by itself
ValgrindDone(waitErrors, outputs) ==
    \E werr \in waitErrors, out \in outputs :
        /\ pc = "valgrind_wait"
        /\ procs' = procs \ {ValgrindProc(testsRun)}
        /\ elapsed' = elapsed + RunMs
        /\ trace' = trace \o <<"valgrind_done", ToString(werr), ToString(out)>>
                        \o (IF WaitErrorIsFailure(werr) THEN <<>> ELSE <<"verdict">>)
        /\ LET v == ValgrindVerdict(werr, out)
           IN  Return(test, FinishResult(config, result, v.hasLeaks, v.hasOpenFDs, v.err,
                                   elapsed + RunMs))
        /\ UNCHANGED <<config, prompt, probes, managed, catName, catsRun, testsRun, test, categoryResults,
                       exitCode, dirs>>
        /\ UNCHANGED pureVars
        /\ UNCHANGED sends

\* "case <-time.After(timeout)": "cmd.Process.Signal(os.Interrupt)"
ValgrindTimeout ==
    /\ pc = "valgrind_wait"
    /\ elapsed' = elapsed + ValgrindTimeoutOf(config)
    /\ trace' = trace \o <<"sigint_valgrind">>
    /\ pc' = "valgrind_grace"
    /\ UNCHANGED <<config, prompt, probes, managed, catName, catsRun, testsRun, test, result, results,
                   categoryResults, executed, exitCode, procs, dirs>>
    /\ UNCHANGED pureVars
    /\ UNCHANGED sends

\* the error runValgrindCheck returns after its timeout
ValgrindTimedOut(cfg) ==
    ErrValgrindTimeout \o <<DurationWord(ValgrindTimeoutOf(cfg))>>

\* "case <-done: // Process exited after SIGINT"
ValgrindGraceExit ==
    /\ pc = "valgrind_grace"
    /\ procs' = procs \ {ValgrindProc(testsRun)}
    /\ trace' = trace \o <<"valgrind_exited">>
    /\ Return(test, FinishResult(config, result, FALSE, FALSE, ValgrindTimedOut(config), elapsed))
    /\ UNCHANGED <<config, prompt, probes, managed, catName, catsRun, testsRun, test, categoryResults,
                   exitCode, dirs, elapsed>>
    /\ UNCHANGED pureVars
    /\ UNCHANGED sends

\* "case <-time.After(500 * time.Millisecond): cmd.Process.Kill()"
ValgrindGraceKill ==
    /\ pc = "valgrind_grace"
    /\ procs' = procs \ {ValgrindProc(testsRun)}
    /\ elapsed' = elapsed + GraceMs
    /\ trace' = trace \o <<"kill_valgrind">>
    /\ Return(test, FinishResult(config, result, FALSE, FALSE, ValgrindTimedOut(config),
                           elapsed + GraceMs))
    /\ UNCHANGED <<config, prompt, probes, managed, catName, catsRun, testsRun, test, categoryResults,
                   exitCode, dirs>>
    /\ UNCHANGED pureVars
    /\ UNCHANGED sends

\* a process nothing waits for any more ends by itself
Awaited(p) ==
    /\ p.id = testsRun
    /\ \/ pc = "mini_wait" /\ p.role = "mini"
       \/ pc = "bash_wait" /\ p.role = "bash"
       \/ pc \in {"valgrind_wait", "valgrind_grace"} /\ p.role = "valgrind"

OrphanExit ==
    /\ \E p \in procs :
          /\ ~Awaited(p)
          /\ procs' = procs \ {p}
    /\ UNCHANGED <<config, prompt, probes, managed, pc, catName, catsRun, testsRun, test, result, results,
                   categoryResults, executed, exitCode, dirs, elapsed, trace>>
    /\ UNCHANGED pureVars
    /\ UNCHANGED sends

\* a file a shell leaves in the staging directory ("echo hello > ./outfiles/out1")
LateFile == <<"late", "file", "hola">>

\* a shell that outlived the Kill() of its wrapper goes on with its command:
\* it writes its file into ./outfiles and ends
OrphanWrite ==
    /\ managed.dirsExist
    /\ \E p \in procs :
          /\ ~Awaited(p)
          /\ p.kind = "shell"
          /\ procs' = procs \ {p}
    /\ dirs' = [dirs EXCEPT !.outfiles = Written(dirs.outfiles, {LateFile})]
    /\ UNCHANGED <<config, prompt, probes, managed, pc, catName, catsRun, testsRun, test, result, results,
                   categoryResults, executed, exitCode, elapsed, trace>>
    /\ UNCHANGED pureVars
    /\ UNCHANGED sends

\* "make(chan error, 1)": the capacity of miniDone, bashDone and done
ChanCap == 1

\* the step by which the select of a run was left without receiving
TimeoutStep(role) ==
    CASE role = "mini" -> "mini_timeout"
      [] role = "bash" -> "bash_timeout"
      [] role = "valgrind" -> "kill_valgrind"

\* the channels nobody receives from any more: one per run whose select was left
\* by its timeout branch, named by the number of the runTest call and the run
Abandoned ==
    {c \in [id : 1..Len(executed), role : {"mini", "bash", "valgrind"}] :
        \E k \in 1..Len(executed[c.id].trace) :
            executed[c.id].trace[k] = TimeoutStep(c.role)}

\* Output() / Wait() of the goroutine of channel c has returned: no process of
\* that run is left
WaitReturned(c) == {p \in procs : p.id = c.id /\ p.role = c.role} = {}

\* values sitting in the buffer of channel c
Buffered(c) == Cardinality({s \in sends : s.chan = c /\ s.state = "sent"})

\* mutant of SendCompletes: the channel has no buffer
SendCompletes_Unbuffered(buffered) == buffered < 0

\* a send on a channel without receiver completes when the buffer has room
SendCompletes(buffered) == buffered < ChanCap

\* "miniDone <- err", "bashDone <- err", "done <- cmd.Wait()": the one send of a
\* goroutine whose select has been left by the timeout branch
GoroutineSend ==
    /\ \E c \in Abandoned :
          /\ c \notin {s.chan : s \in sends}
          /\ WaitReturned(c)
          /\ sends' = sends \cup
                 {[chan |-> c,
                   state |-> IF SendCompletes(Buffered(c)) THEN "sent" ELSE "blocked"]}
    /\ UNCHANGED <<config, prompt, probes, managed, pc, catName, catsRun, testsRun, test, result, results,
                   categoryResults, executed, exitCode, procs, dirs, elapsed, trace>>
    /\ UNCHANGED pureVars

----------------------------------------------------------------------------
(* Spec: the test cases of one category, under every behaviour of the      *)
(* candidate, of bash, of the file system and of valgrind                  *)

CleanFailures == {"outfiles", "mini", "bash"}

Next ==
    \/ SetupFail
    \/ SetupTestEnvironment
    \/ GetPrompt(BOOLEAN, ProbeOutputs)
    \/ NoCategories
    \/ StartCategory({"builtins"}, 1)
    \/ EndCategory
    \/ Summary
    \/ RunTestSkip(TestCases, MaxExecTests)
    \/ RunTestCleanFail(TestCases, CleanFailures, MaxExecTests)
    \/ RunTestStart(TestCases, MaxExecTests)
    \/ MiniDoneCopyFail(MiniOutcomes)
    \/ MiniDoneCleanFail(MiniOutcomes)
    \/ MiniDone(MiniOutcomes)
    \/ MiniTimeout(BOOLEAN)
    \/ BashDoneCopyFail(BashOutcomes)
    \/ BashDoneCompareFail(BashOutcomes)
    \/ BashDoneComparePanic(BashOutcomes)
    \/ BashDoneNoValgrind(BashOutcomes)
    \/ BashDoneValgrindStartFail(BashOutcomes)
    \/ BashDone(BashOutcomes)
    \/ BashTimeout(BOOLEAN)
    \/ ValgrindDone(ValgrindWaitErrors, ValgrindOutputs)
    \/ ValgrindTimeout
    \/ ValgrindGraceExit
    \/ ValgrindGraceKill
    \/ OrphanExit

Spec == Init /\ [][Next]_vars

----------------------------------------------------------------------------
(* SuiteSpec: several categories and test cases; each run either ends with *)
(* output that matches or differs, or times out                            *)

SuiteMiniOutcomes ==
    {RanOutcome("mini_hola", RawPromptedHola, 0, EmptyDir),
     RanOutcome("mini_bonjour_outfile", Bonjour \o <<NL>>, 0, OutFileHola)}

\* the candidate ran "echo hola > ./outfiles/skipped" with a umask that leaves
\* the file unreadable
MiniSkippedFile ==
    RanOutcome("mini_hola_file_skipped", RawPromptedHola, 0, {<<"skipped", "file", "hola">>})

SuiteBashOutcomes == {RanOutcome("bash_hola", Hola \o <<NL>>, 0, EmptyDir)}

SuiteProbeOutputs == {<<"$", " ", NL>>}

SuiteValgrindOutputs ==
    {<<"8", "bytes", "definitely", "lost", "in", "1", "blocks">>}

SuiteNext ==
    \/ SetupTestEnvironment
    \/ GetPrompt(BOOLEAN, SuiteProbeOutputs)
    \/ NoCategories
    \/ StartCategory(CatNames, MaxCats)
    \/ EndCategory
    \/ Summary
    \/ RunTestSkip(TestCases, MaxTests)
    \/ RunTestCleanFail(TestCases, {"outfiles"}, MaxTests)
    \/ RunTestStart(TestCases, MaxTests)
    \/ MiniDone(SuiteMiniOutcomes)
    \/ MiniDoneReadFail({MiniSkippedFile})
    \/ MiniTimeout({TRUE})
    \/ BashDoneNoValgrind(SuiteBashOutcomes)
    \/ BashDone(SuiteBashOutcomes)
    \/ BashTimeout({TRUE})
    \/ ValgrindDone({NoError}, SuiteValgrindOutputs)
    \/ ValgrindTimeout
    \/ ValgrindGraceKill
    \/ OrphanExit

SuiteSpec == Init /\ [][SuiteNext]_vars

----------------------------------------------------------------------------
(* DetSpec: one test case run several times in a row, under every          *)
(* behaviour of the candidate, of bash and of valgrind and every outcome   *)
(* of the unsynchronised reads                                             *)

DetTestCases == {t \in TestCases : ~t.Skip}

DetValgrindOutputs ==
    SuiteValgrindOutputs \cup {<<"ERROR", "SUMMARY", ":", "0", "errors">>}

DetNext ==
    \/ SetupTestEnvironment
    \/ GetPrompt(BOOLEAN, SuiteProbeOutputs)
    \/ StartCategory({"builtins"}, 1)
    \/ EndCategory
    \/ Summary
    \/ RunTestCleanFail(DetTestCases, {"outfiles"}, DetRuns)
    \/ RunTestStart(DetTestCases, DetRuns)
    \/ MiniDone(SuiteMiniOutcomes)
    \/ MiniTimeout(BOOLEAN)
    \/ BashDoneNoValgrind(SuiteBashOutcomes)
    \/ BashDone(SuiteBashOutcomes)
    \/ BashTimeout(BOOLEAN)
    \/ ValgrindDone({NoError, ErrSignalKilled}, DetValgrindOutputs)
    \/ ValgrindTimeout
    \/ ValgrindGraceKill

DetSpec == Init /\ [][DetNext]_vars

----------------------------------------------------------------------------
(* IsoSpec: the runTest calls of one category, with the shells that a       *)
(* timed-out call left running                                              *)

IsoRuns == 2

IsoNext ==
    \/ SetupTestEnvironment
    \/ GetPrompt({FALSE}, SuiteProbeOutputs)
    \/ StartCategory({"builtins"}, 1)
    \/ EndCategory
    \/ Summary
    \/ RunTestStart(DetTestCases, IsoRuns)
    \/ MiniDone(SuiteMiniOutcomes)
    \/ MiniTimeout(BOOLEAN)
    \/ BashDoneNoValgrind(SuiteBashOutcomes)
    \/ BashDone(SuiteBashOutcomes)
    \/ BashTimeout(BOOLEAN)
    \/ ValgrindDone({NoError}, SuiteValgrindOutputs)
    \/ OrphanWrite
    \/ OrphanExit

IsoSpec == Init /\ [][IsoNext]_vars

----------------------------------------------------------------------------
(* VgSpec: the runTest calls of one category with valgrind enabled, for a   *)
(* -valgrind-timeout flag of 0 or of its default                            *)

VgConfigs ==
    [SkipValgrind : {FALSE},
     Timeout : {DefaultTimeoutSecs * Second},
     ValgrindTimeout : {0, DefaultValgrindTimeoutSecs * Second}]

VgNext ==
    \/ SetupTestEnvironment
    \/ GetPrompt({FALSE}, SuiteProbeOutputs)
    \/ StartCategory({"builtins"}, 1)
    \/ EndCategory
    \/ Summary
    \/ RunTestStart(DetTestCases, DetRuns)
    \/ MiniDone(SuiteMiniOutcomes)
    \/ BashDone(SuiteBashOutcomes)
    \/ ValgrindDone({NoError}, DetValgrindOutputs)
    \/ ValgrindTimeout
    \/ ValgrindGraceExit
    \/ ValgrindGraceKill

VgInit == InitWith(VgConfigs) /\ PureIdle

VgSpec == VgInit /\ [][VgNext]_vars

----------------------------------------------------------------------------
(* ChanSpec: the runTest calls of one category with the goroutines that     *)
(* wait for the three subprocesses                                          *)

ChanNext ==
    \/ SetupTestEnvironment
    \/ GetPrompt({FALSE}, SuiteProbeOutputs)
    \/ StartCategory({"builtins"}, 1)
    \/ EndCategory
    \/ Summary
    \/ RunTestStart(DetTestCases, IsoRuns)
    \/ MiniDone(SuiteMiniOutcomes)
    \/ MiniTimeout(BOOLEAN)
    \/ BashDoneNoValgrind(SuiteBashOutcomes)
    \/ BashDone(SuiteBashOutcomes)
    \/ BashTimeout(BOOLEAN)
    \/ ValgrindDone({NoError}, SuiteValgrindOutputs)
    \/ ValgrindTimeout
    \/ ValgrindGraceExit
    \/ ValgrindGraceKill
    \/ OrphanExit
    \/ GoroutineSend

ChanSpec == Init /\ [][ChanNext]_vars

----------------------------------------------------------------------------
(* LiveSpec: the runTest calls of one category under fairness: a timer      *)
(* that a select of runTest or of runValgrindCheck waits on fires unless    *)
(* the select has been left before                                          *)

LiveRuns == 2

\* the candidate ran "mkfifo ./outfiles/p" and ended
FifoEntry == <<"p", "fifo", "">>

MiniFifo == RanOutcome("mini_hola_fifo", RawPromptedHola, 0, {FifoEntry})

LiveNext ==
    \/ SetupTestEnvironment
    \/ GetPrompt({FALSE}, SuiteProbeOutputs)
    \/ StartCategory({"builtins"}, 1)
    \/ EndCategory
    \/ Summary
    \/ RunTestStart(DetTestCases, LiveRuns)
    \/ MiniDone(SuiteMiniOutcomes)
    \/ MiniDoneCopyBlocked({MiniFifo})
    \/ MiniTimeout({TRUE})
    \/ BashDoneNoValgrind(SuiteBashOutcomes)
    \/ BashDone(SuiteBashOutcomes)
    \/ BashTimeout({TRUE})
    \/ ValgrindDone({NoError}, SuiteValgrindOutputs)
    \/ ValgrindTimeout
    \/ ValgrindGraceExit
    \/ ValgrindGraceKill

\* time.After(config.Timeout), time.After(timeout) and
\* time.After(500 * time.Millisecond) deliver once their duration has gone by
TimersFire ==
    /\ WF_vars(MiniTimeout({TRUE}))
    /\ WF_vars(BashTimeout({TRUE}))
    /\ WF_vars(ValgrindTimeout)
    /\ WF_vars(ValgrindGraceKill)

LiveSpec == Init /\ [][LiveNext]_vars /\ TimersFire

----------------------------------------------------------------------------
(* SuiteLiveSpec: a whole run of one category under fairness: main and the  *)
(* loop of runCategoryTests take their next step, and the timers of the     *)
(* selects fire                                                             *)

SuiteLiveNext ==
    \/ SetupTestEnvironment
    \/ GetPrompt({FALSE}, SuiteProbeOutputs)
    \/ GetPromptBlocked
    \/ StartCategory({"builtins"}, 1)
    \/ EndCategory
    \/ Summary
    \/ RunTestStart(DetTestCases, LiveRuns)
    \/ MiniDone(SuiteMiniOutcomes)
    \/ MiniTimeout({TRUE})
    \/ BashDoneNoValgrind(SuiteBashOutcomes)
    \/ BashDone(SuiteBashOutcomes)
    \/ BashTimeout({TRUE})
    \/ ValgrindDone({NoError}, SuiteValgrindOutputs)
    \/ ValgrindTimeout
    \/ ValgrindGraceExit
    \/ ValgrindGraceKill

\* the statements of main and of runCategoryTests between two waits are executed
MainRuns ==
    /\ WF_vars(SetupTestEnvironment)
    /\ WF_vars(GetPrompt({FALSE}, SuiteProbeOutputs))
    /\ WF_vars(StartCategory({"builtins"}, 1))
    /\ WF_vars(RunTestStart(DetTestCases, LiveRuns))
    /\ WF_vars(EndCategory)
    /\ WF_vars(Summary)

SuiteLiveSpec == Init /\ [][SuiteLiveNext]_vars /\ MainRuns /\ TimersFire

----------------------------------------------------------------------------
(* NormSpec: the normalization of the candidate's output as a function of  *)
(* the raw text and the prompt.  The raw text is built from chunks.        *)

RECURSIVE Flatten(_)
Flatten(chunks) ==
    IF chunks = <<>> THEN <<>> ELSE Head(chunks) \o Flatten(Tail(chunks))

NormChunks ==
    {<<ESC, "[">>, <<ESC, "[", "0", "m">>, <<"0", "m">>, <<"h">>, <<" ">>, <<NL>>,
     <<"$", " ">>, ExitLine}

NormPrompts == {<<>>, <<"$">>}

PureInit(args) ==
    /\ SuiteInit
    /\ pureIn = <<>>
    /\ pureArg \in args
    /\ pureOut = <<>>
    /\ pureOut2 = <<>>

\* one more chunk of input text
PureAppend(chunks) ==
    /\ pc = "main_setup"
    /\ Len(pureIn) < MaxChunks
    /\ \E c \in chunks : pureIn' = Append(pureIn, c)
    /\ UNCHANGED <<pureArg, pureOut, pureOut2>>
    /\ UNCHANGED suiteVars

\* "miniOutputStr := removeColors(string(miniOutput)) ... result.MiniOutput = ..."
NormApply ==
    /\ pc = "main_setup"
    /\ pureOut' = NormalizeMini(Flatten(pureIn), pureArg)
    /\ pc' = "pure_once"
    /\ UNCHANGED <<pureIn, pureArg, pureOut2>>
    /\ UNCHANGED <<config, prompt, probes, managed, catName, catsRun, testsRun, test, result, results,
                   categoryResults, executed, exitCode, procs, dirs, elapsed, trace, sends>>

\* the same processing applied to its own result
NormAgain ==
    /\ pc = "pure_once"
    /\ pureOut2' = NormalizeMini(pureOut, pureArg)
    /\ pc' = "pure_twice"
    /\ UNCHANGED <<pureIn, pureArg, pureOut>>
    /\ UNCHANGED <<config, prompt, probes, managed, catName, catsRun, testsRun, test, result, results,
                   categoryResults, executed, exitCode, procs, dirs, elapsed, trace, sends>>

\* "result.BashOutput = strings.TrimSpace(string(bashOutput))"
NormBashApply ==
    /\ pc = "main_setup"
    /\ pureOut' = NormalizeBash(Flatten(pureIn))
    /\ pc' = "pure_bash"
    /\ UNCHANGED <<pureIn, pureArg, pureOut2>>
    /\ UNCHANGED <<config, prompt, probes, managed, catName, catsRun, testsRun, test, result, results,
                   categoryResults, executed, exitCode, procs, dirs, elapsed, trace, sends>>

NormNext ==
    \/ PureAppend(NormChunks)
    \/ NormApply
    \/ NormAgain
    \/ NormBashApply

NormSpec == PureInit(NormPrompts) /\ [][NormNext]_vars

----------------------------------------------------------------------------
(* ClassifySpec: runValgrindCheck's classification as a function of the    *)
(* diagnostic stream of a valgrind that ended by itself                    *)

DiagChunks ==
    {<<"definitely">>, <<"indirectly">>, <<"possibly">>, <<"lost">>, <<"still">>,
     <<"reachable">>, <<"file", "descriptors", "are">>, <<"left", "open">>,
     <<"bytes">>}

\* "valgrindOutput := stderr.String(); hasLeaks := ...; hasOpenFDs := ..."
ClassifyApply ==
    /\ pc = "main_setup"
    /\ \E werr \in {NoError, ErrExitStatus} :
          pureOut' = ValgrindVerdict(werr, Flatten(pureIn))
    /\ pc' = "pure_once"
    /\ UNCHANGED <<pureIn, pureArg, pureOut2>>
    /\ UNCHANGED <<config, prompt, probes, managed, catName, catsRun, testsRun, test, result, results,
                   categoryResults, executed, exitCode, procs, dirs, elapsed, trace, sends>>

ClassifyNext ==
    \/ PureAppend(DiagChunks)
    \/ ClassifyApply

ClassifySpec == PureInit({<<>>}) /\ [][ClassifyNext]_vars

----------------------------------------------------------------------------
(* DirSpec: the file part of one runTest call as a function of what the    *)
(* candidate and the reference leave in OutfilesDir                        *)

StagingNames == {"out", "sub"}

StagingEntries == StagingNames \X {"file", "dir"} \X {"hola", "bonjour"}

\* what a run can leave in OutfilesDir
StagingContents ==
    {d \in SUBSET StagingEntries : \A f \in d, g \in d : f[1] = g[1] => f = g}

\* the three cleanDir calls, the candidate's run, copyFiles(OutfilesDir,
\* MiniOutDir), cleanDir(OutfilesDir)
DirMiniRun(contents) ==
    /\ pc = "main_setup"
    /\ \E left \in contents :
          /\ pureIn' = <<left>>
          /\ dirs' = [outfiles |-> cleanDir(left),
                      mini |-> copyFiles(left, cleanDir(dirs.mini)),
                      bash |-> cleanDir(dirs.bash)]
    /\ pc' = "pure_once"
    /\ UNCHANGED <<pureArg, pureOut, pureOut2>>
    /\ UNCHANGED <<config, prompt, probes, managed, catName, catsRun, testsRun, test, result, results,
                   categoryResults, executed, exitCode, procs, elapsed, trace, sends>>

\* the reference's run, copyFiles(OutfilesDir, BashOutDir), compareDirs and the
\* verdict of a test case whose outputs and exit codes agree
DirBashRun(contents) ==
    /\ pc = "pure_once"
    /\ \E left \in contents :
          /\ pureIn' = Append(pureIn, left)
          /\ dirs' = [dirs EXCEPT !.outfiles = left,
                                  !.bash = copyFiles(left, dirs.bash)]
          /\ pureOut' = compareDirs(dirs.mini, copyFiles(left, dirs.bash))
          /\ result' = FinishResult(config,
                            [result EXCEPT !.OutfilesDiff =
                                compareDirs(dirs.mini, copyFiles(left, dirs.bash))],
                            FALSE, FALSE, NoError, RunMs)
    /\ pc' = "pure_twice"
    /\ UNCHANGED <<pureArg, pureOut2>>
    /\ UNCHANGED <<config, prompt, probes, managed, catName, catsRun, testsRun, test, results,
                   categoryResults, executed, exitCode, procs, elapsed, trace, sends>>

DirNext ==
    \/ DirMiniRun(StagingContents)
    \/ DirBashRun(StagingContents)

DirSpec == PureInit({<<>>}) /\ [][DirNext]_vars

----------------------------------------------------------------------------
(* Properties *)

ExecutedResults == {executed[i].result : i \in 1..Len(executed)}

\* the four comparisons of the pass rule, read off a TestResult
OutputsEqual(r) == r.MiniOutput = r.BashOutput
ExitCodesEqual(r) == r.MiniExitCode = r.BashExitCode
NoFileDifference(r) == Len(r.OutfilesDiff) = 0
NoResourceIssue(r) == ~(r.HasLeaks \/ r.HasOpenFDs)

PassRule(r) ==
    /\ OutputsEqual(r)
    /\ ExitCodesEqual(r)
    /\ NoFileDifference(r)
    /\ (config.SkipValgrind \/ NoResourceIssue(r))

StartsWith(e, words) == Len(e) >= Len(words) /\ SubSeq(e, 1, Len(words)) = words

\* C1 as stated: in every TestResult returned by runTest, Passed is true if
\* and only if outputs are equal, exit codes are equal, OutfilesDiff is empty
\* and (SkipValgrind or neither HasLeaks nor HasOpenFDs).
C1_PassedIffRule_Original ==
    \A r \in ExecutedResults : r.Passed <=> PassRule(r)

\* C1 amended: the equivalence holds for every TestResult returned with a nil
\* Error (all steps ran); a TestResult returned with an Error has Passed false.
C1_PassedIffRule ==
    \A r \in ExecutedResults :
        /\ Len(r.Error) = 0 => (r.Passed <=> PassRule(r))
        /\ Len(r.Error) > 0 => ~r.Passed

\* a completed test that passed, and the run is over
C1_Witness ==
    /\ pc = "exit"
    /\ \E r \in ExecutedResults : Len(r.Error) = 0 /\ r.Passed

\* C2: a runTest call on a TestCase with Skip set spawns no process, cleans no
\* directory, takes no step of the test, and returns at once a TestResult with
\* Passed false and the "test skipped" Error; nothing is spawned or cleaned for
\* it afterwards either.
C2_SkipRunsNothing ==
    [][ (test'.Skip /\ testsRun' >= 1) =>
          /\ procs' \subseteq procs
          /\ dirs' = dirs
          /\ trace' = <<>>
          /\ pc' \in {"cat_loop", "main_loop", "exit"}
          /\ ~result'.Passed
          /\ result'.Error = <<"test", "skipped">>
          /\ (testsRun' = testsRun + 1 => results' = Append(results, result'))
      ]_vars

\* a skipped test case has returned while files of an earlier test are still
\* in a snapshot directory
C2_Witness ==
    /\ test.Skip
    /\ testsRun >= 2
    /\ dirs.mini # {}
    /\ result.Error = <<"test", "skipped">>

\* C3 as stated: when the summary has been printed, the exit status is 0 if
\* every executed test case that was not marked skip passed, and 1 otherwise.
C3_ExitStatus ==
    pc = "exit" =>
        LET allPassed == \A i \in 1..Len(executed) :
                            executed[i].test.Skip \/ executed[i].result.Passed
        IN  exitCode = (IF allPassed THEN 0 ELSE 1)

IsMiniTimeoutError(e) ==
    StartsWith(e, <<"minishell", "command", "timed", "out", "after">>)

\* C4: when the candidate's timer fires first, runTest returns a TestResult
\* with Passed false, MiniExitCode -1 and the timeout Error; the result is
\* appended to the category's results and the loop of runCategoryTests goes on
\* (no exit status is set, the run is not ended).
C4_TimeoutIsAResult ==
    [][ MiniTimeout(BOOLEAN) =>
          /\ ~result'.Passed
          /\ result'.MiniExitCode = -1
          /\ IsMiniTimeoutError(result'.Error)
          /\ results' = Append(results, result')
          /\ pc' = "cat_loop"
          /\ exitCode' = exitCode
      ]_vars

\* the test case after a timed-out one is running
C4_Witness ==
    /\ pc = "mini_wait"
    /\ Len(results) > 0
    /\ results[Len(results)].MiniExitCode = -1
    /\ IsMiniTimeoutError(results[Len(results)].Error)

\* C5 as stated: a TestResult returned because the candidate timed out has
\* TimeTaken equal to config.Timeout.
C5_TimeoutDuration ==
    \A r \in ExecutedResults :
        IsMiniTimeoutError(r.Error) => r.TimeTaken = config.Timeout

\* C6 as stated: a process of a candidate or reference pipeline is running
\* only while runTest waits for that very run; once the run has ended by
\* timeout and runTest has returned, none of its processes is left.
C6_NoProcessLeft ==
    \A p \in procs :
        p.role \in {"mini", "bash"} =>
            /\ p.id = testsRun
            /\ pc = (IF p.role = "mini" THEN "mini_wait" ELSE "bash_wait")

\* C7 as stated: normalizing an already normalized text returns it unchanged.
C7_Idempotent ==
    pc = "pure_twice" => pureOut2 = pureOut

\* the diagnostic stream has the words of phrase, in order, at position i
PhraseAt(text, i, phrase) ==
    /\ i + Len(phrase) - 1 <= Len(text)
    /\ \A k \in 1..Len(phrase) : text[i + k - 1] = phrase[k]

HasPhrase(text, phrase) == \E i \in 1..Len(text) : PhraseAt(text, i, phrase)

\* C8: for a valgrind that ended by itself, hasLeaks is true exactly when the
\* stream contains "definitely lost", "indirectly lost", "possibly lost" or
\* "still reachable", and hasOpenFDs exactly when it contains
\* "file descriptors are left open".
C8_Classifier ==
    pc = "pure_once" =>
        LET text == Flatten(pureIn)
        IN  /\ pureOut.err = <<>>
            /\ pureOut.hasLeaks <=>
                  \/ HasPhrase(text, <<"definitely", "lost">>)
                  \/ HasPhrase(text, <<"indirectly", "lost">>)
                  \/ HasPhrase(text, <<"possibly", "lost">>)
                  \/ HasPhrase(text, <<"still", "reachable">>)
            /\ pureOut.hasOpenFDs <=>
                  HasPhrase(text, <<"file", "descriptors", "are", "left", "open">>)

\* a stream whose only leak marker is "still reachable", with descriptors left open
C8_Witness ==
    /\ pc = "pure_once"
    /\ pureIn = <<<<"still">>, <<"reachable">>, <<"file", "descriptors", "are">>>>
    /\ pureOut.hasLeaks
    /\ ~pureOut.hasOpenFDs

\* C9: with SkipValgrind set no valgrind process is ever started, HasLeaks and
\* HasOpenFDs are false in every TestResult, and a completed test passes exactly
\* when output, exit code and files agree; with the check enabled a completed
\* test with a leak or an open descriptor does not pass.
C9_DisabledCheck ==
    /\ config.SkipValgrind =>
          /\ \A p \in procs : p.role # "valgrind"
          /\ pc \notin {"valgrind_wait", "valgrind_grace"}
          /\ \A r \in ExecutedResults :
                /\ ~r.HasLeaks
                /\ ~r.HasOpenFDs
                /\ Len(r.Error) = 0 =>
                      (r.Passed <=> (OutputsEqual(r) /\ ExitCodesEqual(r)
                                        /\ NoFileDifference(r)))
    /\ ~config.SkipValgrind =>
          \A r \in ExecutedResults :
              (Len(r.Error) = 0 /\ (r.HasLeaks \/ r.HasOpenFDs)) => ~r.Passed

\* the check is disabled and a test with equal output and exit code has passed
C9_Witness ==
    /\ config.SkipValgrind
    /\ pc = "cat_loop"
    /\ result.Passed
    /\ "verdict" \in {trace[i] : i \in 1..Len(trace)}

\* the check is enabled and a test with equal output, exit code and files has
\* failed on a leak alone
C9_WitnessEnabled ==
    /\ ~config.SkipValgrind
    /\ pc = "cat_loop"
    /\ Len(result.Error) = 0
    /\ result.HasLeaks
    /\ OutputsEqual(result) /\ ExitCodesEqual(result) /\ NoFileDifference(result)
    /\ ~result.Passed

\* C10: with the check enabled, when valgrind cannot be started, when it ends
\* by a failure of its own (killed by a signal, or giving up on its command
\* line with a usage message and status 1), or when it runs past its timeout,
\* runTest returns a TestResult with Passed false and a "valgrind check
\* failed" Error, never a result without leak and without open descriptor.
C10_CheckFailureIsError ==
    [][ ( \/ BashDoneValgrindStartFail(BashOutcomes)
          \/ ValgrindDone({ErrSignalKilled}, ValgrindOutputs)
          \/ ValgrindDone({ErrExitStatus}, {ValgrindUsageError})
          \/ ValgrindGraceExit
          \/ ValgrindGraceKill ) =>
          /\ ~config.SkipValgrind
          /\ ~result'.Passed
          /\ StartsWith(result'.Error, <<"valgrind", "check", "failed", ":">>)
          /\ results' = Append(results, result')
          /\ \A p \in procs' : p.role # "valgrind"
      ]_vars

----------------------------------------------------------------------------
(* Spawn failures, mismatches and tallies *)

\* the steps of the current / last runTest call, as a set
Steps == {trace[i] : i \in 1..Len(trace)}

\* C11: when the candidate's or the reference's process could not be spawned,
\* the TestResult that runTest returns carries an Error and has Passed false.
C11_SpawnFailureIsError ==
    (pc = "cat_loop"
       /\ Steps \cap {"mini_not_found", "mini_not_started", "bash_not_started"} # {})
        => (result.Error # NoError /\ ~result.Passed)

\* the last runTest call ran the candidate and the reference to their end and
\* reached "Determine if test passed"
ReachedVerdict == pc = "cat_loop" /\ "verdict" \in Steps

\* C12: when both runs and the resource check (if enabled) complete, the
\* TestResult has no Error; a difference in normalized output or in exit status
\* gives Passed false; MiniOutput and BashOutput hold the whole normalized
\* output of the runs and MiniExitCode and BashExitCode their exit statuses.
C12_MismatchIsNotAnError ==
    ReachedVerdict =>
        /\ result.Error = NoError
        /\ (~OutputsEqual(result) \/ ~ExitCodesEqual(result)) => ~result.Passed
        /\ \A o \in MiniOutcomes : (o.name \in Steps /\ o.spawn = "ok") =>
              /\ result.MiniOutput = NormalizeMini(o.raw, prompt)
              /\ result.MiniExitCode = o.code
        /\ \A o \in BashOutcomes : (o.name \in Steps /\ o.spawn = "ok") =>
              /\ result.BashOutput = TrimSpace(o.raw)
              /\ result.BashExitCode = o.code

\* the candidate printed "bonjour" where bash printed "hola": the test failed
\* without an Error and both outputs are in the TestResult
C12_Witness ==
    /\ ReachedVerdict
    /\ "mini_bonjour" \in Steps
    /\ result.MiniOutput = Bonjour
    /\ result.BashOutput = Hola
    /\ result.MiniExitCode = result.BashExitCode
    /\ result.Error = NoError
    /\ ~result.Passed

\* the results of the mapping that carry the skipped marker
MarkedPositions(cr) == {q \in AllPositions(cr) : HasSkippedMarker(cr[q[1]][q[2]])}

C14_SkippedNotInDenominator ==
    pc = "exit" =>
        /\ \A n \in DOMAIN categoryResults :
              LET rs == categoryResults[n]
              IN  CategoryCount(rs)[2] = CatPassed(rs) + CatFailed(rs)
        /\ SummaryTotal(categoryResults)
              = SummaryPassed(categoryResults) + SummaryFailed(categoryResults)
        /\ SummaryPassed(categoryResults) + SummaryFailed(categoryResults) > 0 =>
              PassRate(categoryResults)
                  = (SummaryPassed(categoryResults) * 100)
                        \div (SummaryPassed(categoryResults)
                                + SummaryFailed(categoryResults))

\* C15: the slice runCategoryTests builds holds one TestResult per test case
\* run so far in the category, in the order of the runs and with the test's
\* command; once the summary is produced, the mapping handed to it holds the
\* result of every test case that was executed.
C15_OneResultPerTest ==
    /\ LET k == Len(results)
           n == Len(executed)
       IN  /\ k <= n
           /\ \A i \in 1..k :
                 /\ results[i] = executed[n - k + i].result
                 /\ results[i].Command = executed[n - k + i].test.Command
    /\ pc = "exit" =>
          /\ SummaryTotal(categoryResults) = Len(executed)
          /\ \A i \in 1..Len(executed) :
                \E q \in AllPositions(categoryResults) :
                    categoryResults[q[1]][q[2]] = executed[i].result

\* the Error of a runTest call whose working directories could not be cleared
IsCleanError(e) == StartsWith(e, <<"failed", "to", "clean">>)

\* C16: when a working directory cannot be cleared while a category runs, the
\* category is skipped: runTest's failure is not appended as the result of a
\* test case, no result with that error reaches the summary's mapping, and the
\* loop over the categories goes on.
C16_SetupErrorSkipsCategory ==
    /\ \A i \in 1..Len(results) : ~IsCleanError(results[i].Error)
    /\ \A q \in AllPositions(categoryResults) :
          ~IsCleanError(categoryResults[q[1]][q[2]].Error)
    /\ (pc = "exit" /\ \E r \in ExecutedResults : IsCleanError(r.Error)) =>
          catsRun >= 1

\* the steps by which a runTest call fails for a reason local to the test
FailureSteps ==
    {"clean_failed", "copy_mini_failed", "clean_outfiles_failed", "copy_bash_failed",
     "compare_failed", "compare_panicked", "spawn_valgrind_failed", "kill_valgrind",
     "valgrind_exited", "mini_not_found", "mini_not_started", "bash_not_started"}

\* C17: an error local to a test case (timeout, spawn failure, copy or compare
\* failure, failed resource check) never ends the suite: the process does not
\* stop inside a test case, the failing call returns to the loop of
\* runCategoryTests with the error attached to the TestResult it appends, and
\* the process only exits through the summary.
C17_PerTestErrorsDoNotAbort ==
    /\ pc # "panic"
    /\ (pc = "cat_loop" /\ testsRun >= 1
          /\ (Steps \cap FailureSteps # {} \/ result.MiniExitCode = TimedOutCode
                \/ result.BashExitCode = TimedOutCode)) =>
          /\ result.Error # NoError
          /\ Len(results) >= 1 => results[Len(results)] = result
          /\ executed[Len(executed)].result = result

----------------------------------------------------------------------------
(* File comparison *)

\* C18: the comparison text is empty if and only if the candidate's run and
\* the reference's run left the same entries with the same contents in the
\* staging directory; when it is not empty the test case does not pass.
C18_DiffEmptyIffSameFiles ==
    pc = "pure_twice" =>
        /\ (pureOut = <<>>) <=> (pureIn[1] = pureIn[2])
        /\ pureOut # <<>> => ~result.Passed

----------------------------------------------------------------------------
(* Determinism of the verdict *)

\* a step that records how a run behaved, not how runTest's own unsynchronised
\* read of the process handle came out
IsBehaviourStep(s) == s \notin {"kill_mini", "kill_bash"}

Behaviour(steps) == SelectSeq(steps, IsBehaviourStep)

----------------------------------------------------------------------------
(* Error messages *)

\* C20: the comparison covers the messages on standard error: a test case in
\* which the candidate's and the reference's error messages differ does not
\* pass.
C20_StderrCompared ==
    (ReachedVerdict /\ result.MiniErrorMsg # result.BashErrorMsg) => ~result.Passed

----------------------------------------------------------------------------
(* Prompt discovery and the managed directories *)

\* a probe's output with colors removed and trimmed
CleanProbe(p) == TrimSpace(removeColors(p.out))

\* the fallback order of prompt discovery, for probes that did not fail
PromptRule(p, pr) ==
    /\ Len(p) \in {1, 2}
    /\ (~p[1].err /\ CleanProbe(p[1]) # <<>>) => (Len(p) = 1 /\ pr = CleanProbe(p[1]))
    /\ (~p[1].err /\ CleanProbe(p[1]) = <<>>) =>
          /\ Len(p) = 2
          /\ ~p[2].err =>
                pr = IF CleanProbe(p[2]) = <<>> THEN <<"$">> ELSE CleanProbe(p[2])

\* C21: the prompt is the cleaned line of the first probe when that is not
\* empty; otherwise the candidate is probed a second time and the prompt is the
\* cleaned line of that probe, or "$" when it is empty too.  It is computed
\* once: no step after prompt discovery probes again or changes the prompt
\* handed to runTest.
C21_PromptFallback ==
    [][ /\ (pc = "main_prompt" /\ pc' = "main_loop") => PromptRule(probes', prompt')
        /\ pc \notin {"main_setup", "main_prompt"} =>
              (prompt' = prompt /\ probes' = probes)
      ]_vars

\* both probes gave an empty line, "$" was used, and a test case has run with it
C21_Witness ==
    /\ pc = "cat_loop"
    /\ testsRun >= 1
    /\ Len(probes) = 2
    /\ ~probes[1].err /\ ~probes[2].err
    /\ CleanProbe(probes[1]) = <<>> /\ CleanProbe(probes[2]) = <<>>
    /\ prompt = <<"$">>

\* prompt discovery ran and one of its probes failed
PromptDiscoveryFailed == \E i \in 1..Len(probes) : probes[i].err

\* C22: when prompt discovery fails the run goes on (it does not exit before
\* the loop over the categories) and the fallback prompt "$" is used in place
\* of a discovered prompt.
C22_PromptFailureNotFatal ==
    PromptDiscoveryFailed =>
        /\ pc \in {"main_loop", "cat_loop", "mini_wait", "bash_wait", "valgrind_wait",
                   "valgrind_grace", "exit", "exit_nocats", "panic"}
        /\ prompt = DefaultPrompt

\* C23: the three working directories exist while test cases run, and once the
\* run has finished (the summary is produced and the exit status decided) they
\* have been removed and the mode of the invalid_permission fixture has been
\* restored.
C23_DirectoriesManaged ==
    /\ pc \in {"cat_loop", "mini_wait", "bash_wait", "valgrind_wait", "valgrind_grace"}
          => managed.dirsExist
    /\ pc = "exit" => (~managed.dirsExist /\ managed.fixture = "0666")

----------------------------------------------------------------------------
(* Order of the steps of a test case *)

\* the place of a step in the sequence clean, candidate run, candidate
\* snapshot, clear staging, reference run, reference snapshot, compare,
\* resource check, verdict; 0 for an entry of the trace that is no step
StepRank(s) ==
    CASE s \in {"clean", "clean_failed"} -> 1
      [] s \in {"spawn_mini"} -> 2
      [] s \in {"copy_mini", "copy_mini_failed", "copy_mini_blocked"} -> 3
      [] s \in {"clean_outfiles", "clean_outfiles_failed"} -> 4
      [] s \in {"spawn_bash"} -> 5
      [] s \in {"copy_bash", "copy_bash_failed"} -> 6
      [] s \in {"compare", "compare_failed", "compare_panicked"} -> 7
      [] s \in {"spawn_valgrind", "spawn_valgrind_failed"} -> 8
      [] s \in {"verdict"} -> 9
      [] OTHER -> 0

\* C24: the steps of a test case are taken in the fixed order, none twice, and
\* after a step that failed (a clean, spawn, copy, compare or resource-check
\* failure, or a timeout) no further step of the test case is taken.
C24_StrictStepOrder ==
    /\ \A i \in 1..Len(trace), j \in 1..Len(trace) :
          (i < j /\ StepRank(trace[i]) > 0 /\ StepRank(trace[j]) > 0)
              => StepRank(trace[i]) < StepRank(trace[j])
    /\ \A i \in 1..Len(trace) :
          trace[i] \in FailureSteps \cup {"mini_timeout", "bash_timeout"}
              => \A j \in (i + 1)..Len(trace) : StepRank(trace[j]) = 0

----------------------------------------------------------------------------
(* Isolation of the two runs in the file system *)

\* the outcome of a run from the name the trace keeps after the step that
\* started it
OutcomeAfter(tr, step, outcomes) ==
    LET i == CHOOSE k \in 1..Len(tr) : tr[k] = step
    IN  CHOOSE o \in outcomes : o.name = tr[i + 1]

\* C25: when the candidate starts the staging directory and both snapshot
\* directories are empty; when the reference starts the staging directory is
\* empty and the candidate snapshot holds the candidate's files; the candidate
\* snapshot holds only files the candidate of this test case wrote, the
\* reference snapshot only files the reference of this test case wrote.
C25_FilesystemIsolation ==
    [][ /\ (pc # "mini_wait" /\ pc' = "mini_wait") =>
              (dirs'.outfiles = EmptyDir /\ dirs'.mini = EmptyDir /\ dirs'.bash = EmptyDir)
        /\ (pc = "mini_wait" /\ pc' = "bash_wait") =>
              /\ dirs'.outfiles = EmptyDir
              /\ FilesOf(OutcomeAfter(trace', "spawn_mini", SuiteMiniOutcomes).files)
                     \subseteq dirs'.mini
              /\ dirs'.mini \subseteq
                     OutcomeAfter(trace', "spawn_mini", SuiteMiniOutcomes).files
        /\ (pc = "bash_wait" /\ pc' # "bash_wait"
              /\ \E k \in 1..Len(trace') : trace'[k] = "copy_bash") =>
              dirs'.bash \subseteq
                  OutcomeAfter(trace', "spawn_bash", SuiteBashOutcomes).files
      ]_vars

----------------------------------------------------------------------------
(* Cancellation *)

\* the interrupt that has to come before a force-kill
InterruptBefore(kill) ==
    CASE kill = "kill_mini" -> "sigint_mini"
      [] kill = "kill_bash" -> "sigint_bash"
      [] kill = "kill_valgrind" -> "sigint_valgrind"

\* C26: a subprocess past its deadline (candidate, reference or valgrind) is
\* force-killed only after an interrupt signal was sent to it and the grace
\* period of 500 ms has gone by without its exit.
C26_GracefulThenForced ==
    \A i \in 1..Len(trace) :
        trace[i] \in {"kill_mini", "kill_bash", "kill_valgrind"} =>
            /\ \E j \in 1..(i - 1) : trace[j] = InterruptBefore(trace[i])
            /\ elapsed >= GraceMs

----------------------------------------------------------------------------
(* The race between the end of a run and its timer *)

\* the run whose outcome is o ended before its timer: the trace keeps its name
Ended(o) == o.name \in Steps

\* the step the trace keeps right after the name of outcome o
StepAfter(o) ==
    LET i == CHOOSE k \in 1..Len(trace) : trace[k] = o.name
    IN  IF i < Len(trace) THEN trace[i + 1] ELSE "none"

\* C27: a candidate or a reference that ended before its timeout is not
\* reported as timed out: the TestResult holds its exit status and its
\* normalized output, no timeout Error names it, and runTest went on to the
\* snapshot step; a timeout is reported only once the timeout has gone by.
C27_FinishedNotTimedOut ==
    /\ \A o \in MiniOutcomes :
          Ended(o) =>
              /\ result.MiniExitCode = ExitCodeOf(o, 0)
              /\ result.MiniOutput = NormalizeMini(o.raw, prompt)
              /\ ~StartsWith(result.Error, ErrMiniTimeout)
              /\ StepAfter(o) \in {"copy_mini", "copy_mini_failed"}
    /\ \A o \in BashOutcomes :
          Ended(o) =>
              /\ result.BashExitCode = ExitCodeOf(o, 0)
              /\ result.BashOutput = NormalizeBash(o.raw)
              /\ ~StartsWith(result.Error, ErrBashTimeout)
              /\ StepAfter(o) \in {"copy_bash", "copy_bash_failed"}
    /\ (Steps \cap {"mini_timeout", "bash_timeout"} # {}) => elapsed >= config.Timeout

\* the candidate ended with status 2 and the reference with status 0, both
\* before their timeouts, and runTest reached its verdict
C27_Witness ==
    /\ ReachedVerdict
    /\ "mini_hola_status_2" \in Steps
    /\ "bash_hola" \in Steps
    /\ result.MiniExitCode = 2
    /\ result.BashExitCode = 0
    /\ result.Error = NoError
    /\ elapsed < config.Timeout

----------------------------------------------------------------------------
(* One test case at a time *)

Running == pc \in {"mini_wait", "bash_wait", "valgrind_wait", "valgrind_grace"}

\* the test cases, by their number in the run, that have a process alive or
\* are inside runTest
UsingStaging == {p.id : p \in procs} \cup (IF Running THEN {testsRun} ELSE {})

\* C28: a test case starts only after the TestResult of the one before it has
\* been produced, within and across categories, and at any time at most one
\* test case is using the staging directory and the error-capture files.
C28_OneTestAtATime ==
    /\ Len(executed) = (IF Running THEN testsRun - 1 ELSE testsRun)
    /\ Cardinality(UsingStaging) <= 1

----------------------------------------------------------------------------
(* Termination of runTest *)

\* C29: every call of runTest returns a TestResult in the end, whatever the
\* candidate, the reference and valgrind do: a call that started its candidate
\* leads to the loop of runCategoryTests holding its TestResult.
C29_RunTestReturns == (pc = "mini_wait") ~> (pc = "cat_loop")

----------------------------------------------------------------------------
(* Escape sequences in the normalized output *)

\* s has a substring ESC "[" <parameters> <final letter>, with one parameter
\* character at least (the pattern of removeColors)
HasEscapeSequence(s) ==
    \E i \in 1..Len(s) :
        /\ i + 2 <= Len(s)
        /\ s[i] = ESC
        /\ s[i + 1] = "["
        /\ ParamRun(s, i + 2) >= 1
        /\ i + 2 + ParamRun(s, i + 2) <= Len(s)
        /\ IsFinalChar(s[i + 2 + ParamRun(s, i + 2)])

\* C30: for every raw output of the candidate, the normalized text has no
\* substring of the form ESC "[" <parameters> <final letter>.
C30_NoEscapeSequenceLeft ==
    pc = "pure_once" => ~HasEscapeSequence(pureOut)

----------------------------------------------------------------------------
(* Prompt-artifact filtering *)

\* the trimmed line t begins with the prompt p
BeginsWith(t, p) == Len(p) <= Len(t) /\ \A k \in 1..Len(p) : t[k] = p[k]

\* the trimmed line t has "$ exit" somewhere in it
HasDollarExit(t) ==
    \E i \in 1..Len(t) :
        /\ i + 5 <= Len(t)
        /\ <<t[i], t[i + 1], t[i + 2], t[i + 3], t[i + 4], t[i + 5]>> = DollarExit

\* the rule of the specification for discarding a line under prompt p
Discarded(line, p) ==
    \/ BeginsWith(TrimSpace(line), p)
    \/ TrimSpace(line) = ExitLine
    \/ HasDollarExit(TrimSpace(line))

KeptUnder(line) == ~Discarded(line, pureArg)

\* C31: with a non-empty prompt the lines discarded from the candidate's output
\* are exactly those that, trimmed, begin with the prompt, are "exit" or contain
\* "$ exit"; the others stay in their order; with an empty prompt no line is
\* discarded; the joined text is trimmed.
C31_PromptFiltering ==
    pc = "pure_once" =>
        LET lines == SplitLines(removeColors(Flatten(pureIn)))
        IN  pureOut = TrimSpace(JoinLines(IF pureArg # <<>>
                                          THEN SelectSeq(lines, KeptUnder)
                                          ELSE lines))

\* under prompt "$" the output "h", newline, "exit" is reduced to "h"
C31_Witness ==
    /\ pc = "pure_once"
    /\ pureArg = <<"$">>
    /\ pureIn = <<<<"h">>, <<NL>>, ExitLine>>
    /\ pureOut = <<"h">>

----------------------------------------------------------------------------
(* Normalization of the reference output *)

\* C32: the BashOutput that is compared with MiniOutput has its terminal escape
\* sequences stripped: it contains no ESC "[" <parameters> <final letter>.
C32_ReferenceEscapesStripped ==
    pc = "pure_bash" => ~HasEscapeSequence(pureOut)

----------------------------------------------------------------------------
(* The timeout of the instrumented run *)

\* the bound the specification gives the instrumented run
OwnTimeout ==
    IF config.ValgrindTimeout # 0 THEN config.ValgrindTimeout ELSE 2 * config.Timeout

\* C33: valgrind is interrupted exactly when ValgrindTimeout has gone by, or
\* twice Timeout when ValgrindTimeout is zero, never after the functional
\* Timeout; the Error of the TestResult names that duration.
C33_OwnValgrindTimeout ==
    [][ /\ (pc = "valgrind_wait" /\ pc' = "valgrind_grace") =>
              /\ elapsed' - elapsed = OwnTimeout
              /\ elapsed' - elapsed # config.Timeout
        /\ (pc = "valgrind_grace" /\ pc' = "cat_loop") =>
              result'.Error = ErrValgrindPrefix \o ErrValgrindTimeout
                                  \o <<ToString(OwnTimeout)>>
      ]_vars

\* with ValgrindTimeout zero, valgrind was interrupted after twice the timeout
\* of the functional runs and the test case returned
C33_Witness ==
    /\ config.ValgrindTimeout = 0
    /\ pc = "cat_loop"
    /\ "sigint_valgrind" \in Steps
    /\ elapsed >= 2 * config.Timeout
    /\ result.Error = ErrValgrindPrefix \o ErrValgrindTimeout
                          \o <<ToString(2 * config.Timeout)>>

----------------------------------------------------------------------------
(* Failures of the diff command *)

\* the diff of the two snapshots failed otherwise than by exiting with 1
DiffFailed == Steps \cap {"compare_failed", "compare_panicked"} # {}

\* C34: whenever diff fails otherwise than by exiting with status 1, also when
\* it cannot be started, runTest returns a TestResult whose Error begins with
\* "failed to compare outfiles" and the engine goes on.
C34_CompareFailureRecorded ==
    DiffFailed =>
        /\ pc # "panic"
        /\ StartsWith(result.Error, ErrCompare)
        /\ executed # <<>>
        /\ executed[Len(executed)].result = result

----------------------------------------------------------------------------
(* Termination of the suite *)

\* C35: a run of the suite reaches the summary and exits in the end, even when
\* the candidate never exits in any of its invocations, those of prompt
\* discovery included.
C35_SuiteTerminates == <>(pc = "exit")

----------------------------------------------------------------------------
(* Classification of skipped test cases *)

\* C36: a TestResult is classified as skipped (progress marker, tallies, failed
\* list, exit status) exactly when its TestCase has Skip set; a result whose
\* Error has another cause is counted as failed.
C36_SkippedIffSkipFlag ==
    \A i \in 1..Len(executed) :
        /\ IsSkipped(executed[i].result) <=> executed[i].test.Skip
        /\ (executed[i].result.Error # NoError /\ ~executed[i].test.Skip)
               => IsFailed(executed[i].result)

----------------------------------------------------------------------------
(* Passed and Error *)

\* C37: no TestResult has Passed true together with an Error: a skipped test
\* case, a failed setup, a timeout, a failed copy or compare and a failed
\* resource check all leave Passed false.
C37_PassedImpliesNoError ==
    /\ result.Passed => result.Error = NoError
    /\ \A i \in 1..Len(executed) :
          executed[i].result.Error # NoError => ~executed[i].result.Passed

\* one test case passed without Error and another, timed out, did not pass
C37_Witness ==
    /\ Len(executed) = 2
    /\ executed[1].result.Passed
    /\ executed[1].result.Error = NoError
    /\ StartsWith(executed[2].result.Error, ErrMiniTimeout)
    /\ ~executed[2].result.Passed

----------------------------------------------------------------------------
(* The sentinel exit status *)

\* C38: MiniExitCode or BashExitCode is -1 only when that run timed out; a run
\* that ended, normally or by a signal, never records -1.
C38_SentinelOnlyOnTimeout ==
    /\ result.MiniExitCode = TimedOutCode => "mini_timeout" \in Steps
    /\ result.BashExitCode = TimedOutCode => "bash_timeout" \in Steps

----------------------------------------------------------------------------
(* The completion channels *)

\* C39: a goroutine whose select was left by the timeout branch is never stuck
\* in its send: once the wait on its process has returned the send completes,
\* and no channel gets more than one value.
C39_SendNeverBlocks ==
    /\ \A s \in sends : s.state = "sent"
    /\ \A c \in Abandoned : Cardinality({s \in sends : s.chan = c}) <= 1

\* the goroutines of a timed-out candidate and of a killed valgrind have both
\* completed their sends
C39_Witness ==
    /\ \E s \in sends : s.chan.role = "mini" /\ s.state = "sent"
    /\ \E s \in sends : s.chan.role = "valgrind" /\ s.state = "sent"

====
